---- MODULE Spec2Model ----
(***************************************************************************)
(* Statement parsing of FinAi-next-app: the parser registry               *)
(* (src/lib/parsers/index.ts), the generic and ICICI strategies           *)
(* (src/lib/parsers/generic.ts, icici.ts) and the row resolution of       *)
(* app/api/analyze/route.ts.                                              *)
(*                                                                         *)
(* Numbers.  Money is a decimal with two fraction digits and is held as   *)
(* an integer number of hundredths.  Confidences and canParse hints are   *)
(* held in hundredths (0.84 is 84), quality scores in ten-thousandths.    *)
(* The arithmetic is exact; binary floating point rounding of the         *)
(* JavaScript numbers is not represented.                                 *)
(*                                                                         *)
(* Strings.  A string is an atom.  What the code asks of a string is      *)
(* whether its lower-cased form contains a keyword or matches a regular   *)
(* expression, and Vocab lists, for every string of the model, the        *)
(* keywords and patterns of the source that occur in it.                  *)
(***************************************************************************)
EXTENDS Integers, Sequences, FiniteSets, TLC

VARIABLES
    text,         \* the normalised lines of the text under analysis
    pc,           \* the function that is running and where it stands
    i,            \* loop index (row, line or position in PARSERS)
    rows,         \* the ParsedRow list given to rowsToTxns / toTxns
    prevBalance,  \* the loop's prevBalance: {} for null, {b} for a number
    txns,         \* the transactions pushed so far by the running pass
    via,          \* for each element of txns, the branch that set its amount
    best,         \* runParserPipeline's best
    scored,       \* the strategies scored so far in this run, in order
    stubs,        \* behaviours of the registered strategies when they are
                  \* given through the StatementParser interface
    prior,        \* the result of the previous run on the same input
    result,       \* the Txn list returned by parseTransactionsFromText
    insights,     \* what buildInsights returned for result: {} before the call
    arg,          \* the argument of the function that is running alone
    ret,          \* what that function returned: {} before it returns
    calls         \* analysis runs in flight together: <<>> when one runs alone

vars == <<text, pc, i, rows, prevBalance, txns, via, best, scored, stubs, prior, result,
          insights, arg, ret, calls>>

----------------------------------------------------------------------------
(* Bounds *)

\* longest list of row lines after the header in the row-resolution model
MaxRows == 2
\* longest text in the pipeline model
MaxLines == 4
\* longest transaction list a stub strategy returns
MaxStubTxns == 2

----------------------------------------------------------------------------
(* Optional numbers: undefined/null is {}, the number n is {n} *)

None == {}
Some(v) == {v}
IsNumber(o) == o # {}
Val(o) == CHOOSE v \in o : TRUE
Abs(n) == IF n < 0 THEN 0 - n ELSE n
Last(s) == s[Len(s)]

----------------------------------------------------------------------------
(* Strings of the model and the source keywords each contains *)

HdrGeneric == "Date Value Date Particulars Withdrawal Deposit Balance"
HdrIcici == "Transaction Date Transaction Remarks Withdrawal Amount Deposit Amount Balance"
TxtBank == "ICICI Bank Ltd"
TxtRef == "Ref 4411"
DescUpi == "UPI SHOP"
DescSalary == "SALARY ACME"
DescOpening == "Opening Balance"
DescNeftIcici == "NEFT ICICI BANK"
DescImps == "Imps Transfer"
DescRtgs == "RTGS OUT"
DescAtm == "ATM WDL"
DescTreatment == "TREATMENT"
DescInterest == "Interest Paid"
DescPremium == "PREMIUM"
DescLoan == "Loan Repay"
DescCharge == "SMS Charge"
DescCoffee == "COFFEE DAY"
DescGrocery == "GROCERY"

\* The keywords and patterns tested by the source that occur in string s
\* (lower-cased, as the source lower-cases or matches with /i).
Vocab(s) ==
    CASE s = HdrGeneric -> {"date", "value date", "particular", "withdraw", "deposit", "balance"}
      [] s = HdrIcici -> {"date", "transaction date", "remarks", "transaction remarks", "withdraw",
                          "withdrawal amount", "deposit", "deposit amount", "balance"}
      [] s = TxtBank -> {"icici", "icici bank"}
      [] s = TxtRef -> {}
      [] s = DescUpi -> {"upi"}
      [] s = DescSalary -> {"salary"}
      [] s = DescOpening -> {"opening balance", "balance"}
      [] s = DescNeftIcici -> {"neft", "icici", "icici bank"}
      [] s = DescImps -> {"imps"}
      [] s = DescRtgs -> {"rtgs"}
      [] s = DescAtm -> {"atm"}
      [] s = DescTreatment -> {"atm"}
      [] s = DescInterest -> {"interest"}
      [] s = DescPremium -> {"emi"}
      [] s = DescLoan -> {"loan"}
      [] s = DescCharge -> {"charge"}
      [] s = DescCoffee -> {"fee"}
      [] s = DescGrocery -> {}
      [] s = "CR" -> {"cr\\b", "\\b(dr|cr)\\b"}
      [] s = "DR" -> {"\\b(dr|cr)\\b"}
      [] OTHER -> {}

\* String.prototype.includes / RegExp.test on one line or on one fragment
includes(s, kw) == kw \in Vocab(s)

\* A description is the list of the fragments joined by single spaces:
\* the row's own text and the continuation lines appended to it.
\* The empty string is the empty list.
descIncludes(d, kw) == \E k \in 1..Len(d) : includes(d[k], kw)

----------------------------------------------------------------------------
(* Lines.  A line, after whitespace normalisation, is an optional bare  *)
(* row number, an optional leading date token, an optional second date    *)
(* token and the rest, a list of items separated by spaces.  An item is a *)
(* word (any text without a number in it), an integer-only number, or a   *)
(* decimal token: an optional minus sign, digits with optional thousands  *)
(* commas, a point and fd = 1 or 2 fraction digits.                       *)

\* the date token 05/03/24
Date1 == [form |-> "numeric", dd |-> 5, ddlen |-> 2, mm |-> 3, mmlen |-> 2, mon |-> "",
          yy |-> 24, ylen |-> 2]

Word(s) == [t |-> "word", s |-> s, neg |-> FALSE, whole |-> 0, frac |-> 0, fd |-> 0, grouped |-> FALSE]
IntNum(n) == [t |-> "int", s |-> "", neg |-> FALSE, whole |-> n, frac |-> 0, fd |-> 0, grouped |-> FALSE]
DecTok(neg, whole, frac, fd, grouped) ==
    [t |-> "dec", s |-> "", neg |-> neg, whole |-> whole, frac |-> frac, fd |-> fd, grouped |-> grouped]
\* the token that writes h >= 0 hundredths with two fraction digits
Dec(h) == DecTok(FALSE, h \div 100, h % 100, 2, FALSE)

\* a line that starts with the date 05/03/24: text s, then the decimal
\* tokens that write the amounts a, then the word mark (DR or CR)
RowLine(s, a, mark) ==
    [ rowno |-> FALSE, date |-> {Date1}, vdate |-> {},
      rest |-> (IF s = "" THEN <<>> ELSE <<Word(s)>>)
               \o [k \in 1..Len(a) |-> Dec(a[k])]
               \o (IF mark = "" THEN <<>> ELSE <<Word(mark)>>) ]
\* a line that is the text s alone
TxtLine(s) == [rowno |-> FALSE, date |-> {}, vdate |-> {}, rest |-> <<Word(s)>>]

\* the characters of a date token (written with slashes)
DateText(d) ==
    ToString(d.dd) \o "/" \o (IF d.form = "numeric" THEN ToString(d.mm) ELSE d.mon) \o "/" \o ToString(d.yy)

\* the characters of a decimal token
DecText(tok) ==
    (IF tok.neg THEN "-" ELSE "") \o (IF tok.grouped THEN "," ELSE "") \o ToString(tok.whole) \o "."
    \o (IF tok.fd = 2 /\ tok.frac < 10 THEN "0" ELSE "") \o ToString(tok.frac)

\* the text of an item as a fragment of a description
Frag(item) ==
    IF item.t = "word" THEN item.s
    ELSE IF item.t = "int" THEN ToString(item.whole)
    ELSE DecText(item)
Frags(items) == [k \in 1..Len(items) |-> Frag(items[k])]

\* the whole line as fragments
LineFrags(line) ==
    (IF line.rowno THEN <<"1">> ELSE <<>>)
    \o (IF line.date = {} THEN <<>> ELSE <<DateText(Val(line.date))>>)
    \o (IF line.vdate = {} THEN <<>> ELSE <<DateText(Val(line.vdate))>>)
    \o Frags(line.rest)

Descs == {DescUpi, DescSalary, DescOpening}

\* decimal tokens of a row, in hundredths
AmtSeqs ==
    { <<>>, <<50000>>, <<70000>>, <<20000, 70000>>,
      <<30000, 10000, 50000>>, <<0, 10000, 60000>>, <<30000, 0, 20000>>,
      <<0, 0, 50000>>, <<1200, 0, 10000, 60000>> }

\* row lines without a DR/CR word
PlainRows == { RowLine(s, a, "") : s \in Descs, a \in AmtSeqs }
\* row lines that end with a DR/CR word
MarkedRows == { RowLine(DescUpi, a, m) : a \in AmtSeqs, m \in {"DR", "CR"} }

SeqsUpTo(S, n) == UNION { [1..m -> S] : m \in 0..n }

\* includes / test on a list of items; the keywords are letters, so only
\* the words can contain one
itemsInclude(items, kw) == \E k \in 1..Len(items) : items[k].t = "word" /\ includes(items[k].s, kw)

\* line.includes(kw) on one line
lineIncludes(line, kw) == itemsInclude(line.rest, kw)

\* text.toLowerCase().includes(kw) on the whole text
textIncludes(t, kw) == \E k \in 1..Len(t) : lineIncludes(t[k], kw)

----------------------------------------------------------------------------
(* common.ts *)

\* Date tokens.  form "numeric" is d[./-]m[./-]y, form "name" is d Mon y or
\* d-Mon-y.  dd, mm, yy are the numbers the digit groups write and ddlen,
\* mmlen, ylen how many digits each group has; mon is the three letters.

\* what DATE_TOKEN accepts
DATE_TOKEN(d) ==
    /\ d.ddlen \in 1..2
    /\ d.ylen \in 2..4
    /\ IF d.form = "numeric" THEN d.mmlen \in 1..2 ELSE d.form = "name"

\* String.prototype.toLowerCase on the three letters of a month
toLowerCase(mon) ==
    CASE mon \in {"Jan", "JAN", "jan"} -> "jan"
      [] mon \in {"Mar", "MAR", "mar"} -> "mar"
      [] mon \in {"Sep", "SEP", "sep"} -> "sep"
      [] mon \in {"Dec", "DEC", "dec"} -> "dec"
      [] mon \in {"Foo", "FOO", "foo"} -> "foo"
      [] OTHER -> mon

\* monthMap[mmm]: {} for undefined
monthMap(mmm) ==
    CASE mmm = "jan" -> {1} [] mmm = "feb" -> {2} [] mmm = "mar" -> {3} [] mmm = "apr" -> {4}
      [] mmm = "may" -> {5} [] mmm = "jun" -> {6} [] mmm = "jul" -> {7} [] mmm = "aug" -> {8}
      [] mmm = "sep" -> {9} [] mmm = "oct" -> {10} [] mmm = "nov" -> {11} [] mmm = "dec" -> {12}
      [] OTHER -> {}

\* the width of s.padStart(2, "0") for a string s of len characters
padStart2(len) == IF len < 2 THEN 2 ELSE len

\* mutation: the pivot is at 69 instead of 70
PivotYear_At69(d) ==
    IF d.ylen = 2
    THEN [yyyy |-> IF d.yy >= 69 THEN 1900 + d.yy ELSE 2000 + d.yy, ydigits |-> 4]
    ELSE [yyyy |-> d.yy, ydigits |-> d.ylen]

\* the year group after the two-digit pivot, and how many digits it has
PivotYear(d) ==
    IF d.ylen = 2
    THEN [yyyy |-> IF d.yy >= 70 THEN 1900 + d.yy ELSE 2000 + d.yy, ydigits |-> 4]
    ELSE [yyyy |-> d.yy, ydigits |-> d.ylen]

\* toIsoDate: built says that the string yyyy-mm-dd was assembled, and the
\* other fields are its three groups with their widths; when built is
\* FALSE the token is returned as it is (raw)
toIsoDate(d) ==
    LET y == PivotYear(d)
        mm == IF d.form = "numeric" THEN {d.mm} ELSE monthMap(toLowerCase(d.mon))
    IN IF mm = {}
       THEN [built |-> FALSE, raw |-> {d}, yyyy |-> 0, ydigits |-> 0, mm |-> 0, mdigits |-> 0,
             dd |-> 0, ddigits |-> 0]
       ELSE [built |-> TRUE, raw |-> {}, yyyy |-> y.yyyy, ydigits |-> y.ydigits,
             mm |-> Val(mm), mdigits |-> IF d.form = "numeric" THEN padStart2(d.mmlen) ELSE 2,
             dd |-> d.dd, ddigits |-> padStart2(d.ddlen)]

\* normalizeAmountToken: the thousands commas are removed
normalizeAmountToken(tok) == [tok EXCEPT !.grouped = FALSE]

\* parseAmountToken of common.ts on a token the decimal pattern matched:
\* the number in hundredths, with the sign of the token
parseAmountToken(tok) ==
    LET n == normalizeAmountToken(tok)
        h == n.whole * 100 + (IF n.fd = 1 THEN n.frac * 10 ELSE n.frac)
    IN IF n.t = "dec" /\ ~n.grouped /\ n.fd \in 1..2
       THEN Some(IF n.neg THEN 0 - h ELSE h)
       ELSE None

\* mutation: the salary group is tested first
inferCategory_IncomeFirst(d) ==
    IF descIncludes(d, "salary") THEN "income"
    ELSE IF descIncludes(d, "upi") \/ descIncludes(d, "imps") \/ descIncludes(d, "neft") \/ descIncludes(d, "rtgs")
    THEN "transfer"
    ELSE IF descIncludes(d, "atm") THEN "cash"
    ELSE IF descIncludes(d, "interest") THEN "interest"
    ELSE IF descIncludes(d, "emi") \/ descIncludes(d, "loan") THEN "loan"
    ELSE IF descIncludes(d, "charge") \/ descIncludes(d, "fee") THEN "fees"
    ELSE "uncategorized"

inferCategory(d) ==
    IF descIncludes(d, "upi") \/ descIncludes(d, "imps") \/ descIncludes(d, "neft") \/ descIncludes(d, "rtgs")
    THEN "transfer"
    ELSE IF descIncludes(d, "atm") THEN "cash"
    ELSE IF descIncludes(d, "salary") THEN "income"
    ELSE IF descIncludes(d, "interest") THEN "interest"
    ELSE IF descIncludes(d, "emi") \/ descIncludes(d, "loan") THEN "loan"
    ELSE IF descIncludes(d, "charge") \/ descIncludes(d, "fee") THEN "fees"
    ELSE "uncategorized"

----------------------------------------------------------------------------
(* generic.ts *)

looksLikeHeader(line) ==
    LET hasDateCols == (lineIncludes(line, "date") /\ lineIncludes(line, "value date"))
                       \/ lineIncludes(line, "transaction date")
        hasDescCol == lineIncludes(line, "particular") \/ lineIncludes(line, "remarks")
                      \/ lineIncludes(line, "transaction remarks")
    IN hasDateCols /\ hasDescCol /\ lineIncludes(line, "withdraw") /\ lineIncludes(line, "deposit")
       /\ lineIncludes(line, "balance")

\* line.match(rowRe) of parseRows: {} when there is no match, else the
\* groups.  The pattern wants text after the date, so a second date with
\* nothing behind it is the text, and a date with nothing behind it does not
\* match.
rowRe(line) ==
    IF line.date = {} THEN {}
    ELSE IF line.vdate # {} /\ Len(line.rest) > 0
    THEN {[date |-> Val(line.date), restRaw |-> line.rest]}
    ELSE IF line.vdate # {}
    THEN {[date |-> Val(line.date), restRaw |-> <<Word(DateText(Val(line.vdate)))>>]}
    ELSE IF Len(line.rest) > 0
    THEN {[date |-> Val(line.date), restRaw |-> line.rest]}
    ELSE {}

\* restRaw.matchAll(/-?\d[\d,]*\.\d{1,2}/g): the positions of the decimal
\* tokens, in order
amountMatches(rest) == SelectSeq([k \in 1..Len(rest) |-> k], LAMBDA k : rest[k].t = "dec")

\* amountMatches.map(parseAmountToken).filter(n => n !== null)
amountValues(rest) ==
    LET parsed == SelectSeq(amountMatches(rest), LAMBDA k : IsNumber(parseAmountToken(rest[k])))
    IN [j \in 1..Len(parsed) |-> Val(parseAmountToken(rest[parsed[j]]))]

\* mutation: the first three numbers instead of the last three
LastThree_FirstThree(a) == IF Len(a) <= 3 THEN a ELSE SubSeq(a, 1, 3)

\* amountValues.slice(-3)
LastThree(a) == IF Len(a) <= 3 THEN a ELSE SubSeq(a, Len(a) - 2, Len(a))

\* the position of the first of the last three matches (of the last two, of
\* the last one), or past the end when there is none
firstTailIndex(rest) ==
    LET am == amountMatches(rest)
    IN IF Len(am) >= 3 THEN am[Len(am) - 2]
       ELSE IF Len(am) >= 1 THEN am[1]
       ELSE Len(rest) + 1

\* restRaw.slice(0, firstTailIndex), trimmed
Particulars(rest) == Frags(SubSeq(rest, 1, firstTailIndex(rest) - 1))

\* the ParsedRow built from the groups of a match of rowRe
GenericRowOf(m) ==
    LET lastThree == LastThree(amountValues(m.restRaw))
    IN [ date |-> toIsoDate(m.date),
         particulars |-> Particulars(m.restRaw),
         withdrawal |-> IF Len(lastThree) = 3 THEN Some(lastThree[1]) ELSE None,
         deposit |-> IF Len(lastThree) = 3 THEN Some(lastThree[2]) ELSE None,
         txnAmount |-> IF Len(lastThree) = 2 THEN Some(lastThree[1]) ELSE None,
         balance |-> IF Len(lastThree) > 0 THEN Some(Last(lastThree)) ELSE None ]

\* mutation: a line that does not start a row is never appended
parseRowsBody_NoContinuation(st, line) ==
    IF ~st.inTable /\ looksLikeHeader(line) THEN [st EXCEPT !.inTable = TRUE]
    ELSE IF ~st.inTable THEN st
    ELSE IF rowRe(line) # {}
    THEN [ rows |-> IF st.current # {} THEN Append(st.rows, Val(st.current)) ELSE st.rows,
           inTable |-> TRUE,
           current |-> {GenericRowOf(Val(rowRe(line)))} ]
    ELSE st

\* one iteration of parseRows' loop on a line; the state is the rows
\* pushed, inTable and current ({} for null)
parseRowsBody(st, line) ==
    IF ~st.inTable /\ looksLikeHeader(line) THEN [st EXCEPT !.inTable = TRUE]
    ELSE IF ~st.inTable THEN st
    ELSE IF rowRe(line) # {}
    THEN [ rows |-> IF st.current # {} THEN Append(st.rows, Val(st.current)) ELSE st.rows,
           inTable |-> TRUE,
           current |-> {GenericRowOf(Val(rowRe(line)))} ]
    ELSE IF st.current # {}
    THEN [st EXCEPT !.current = {[Val(st.current) EXCEPT !.particulars = @ \o LineFrags(line)]}]
    ELSE st

ParseRowsStart == [rows |-> <<>>, inTable |-> FALSE, current |-> {}]

\* the state of parseRows' loop after the first n lines
RECURSIVE ParseRowsLoop(_, _)
ParseRowsLoop(lines, n) ==
    IF n = 0 THEN ParseRowsStart ELSE parseRowsBody(ParseRowsLoop(lines, n - 1), lines[n])

\* if (current) rows.push(current); return rows.filter(r => r.particulars.length > 0)
ParseRowsEnd(st) ==
    LET all == IF st.current # {} THEN Append(st.rows, Val(st.current)) ELSE st.rows
    IN SelectSeq(all, LAMBDA r : Len(r.particulars) > 0)

parseRows(lines) == ParseRowsEnd(ParseRowsLoop(lines, Len(lines)))

creditHintGeneric(d) ==
    \E kw \in {"salary", "interest", "refund", "credit", "cr\\b", "deposit", "cashback", "received"} :
        descIncludes(d, kw)

isOpeningBalance(d) == descIncludes(d, "opening balance")

\* mutation: a zero amount is marked as a debit
DrCrOf_ZeroIsDebit(amount) == IF amount > 0 THEN "CR" ELSE "DR"

DrCrOf(amount) == IF amount >= 0 THEN "CR" ELSE "DR"

ConfGenericColumns == 84
ConfGenericInferred == 68

\* mutation: the txnAmount branch is tried before the balance delta
GenericResolve_HintFirst(r, prev) ==
    LET hasDeposit == IsNumber(r.deposit) /\ Val(r.deposit) > 0
        hasWithdrawal == IsNumber(r.withdrawal) /\ Val(r.withdrawal) > 0
    IN IF hasDeposit /\ hasWithdrawal
       THEN [rule |-> "both", amount |-> Val(r.deposit) - Val(r.withdrawal)]
       ELSE IF hasDeposit THEN [rule |-> "deposit", amount |-> Val(r.deposit)]
       ELSE IF hasWithdrawal THEN [rule |-> "withdrawal", amount |-> 0 - Val(r.withdrawal)]
       ELSE IF IsNumber(r.txnAmount)
       THEN [rule |-> "hint",
             amount |-> IF creditHintGeneric(r.particulars)
                        THEN Abs(Val(r.txnAmount)) ELSE 0 - Abs(Val(r.txnAmount))]
       ELSE IF IsNumber(r.balance) /\ IsNumber(prev)
       THEN [rule |-> "delta", amount |-> Val(r.balance) - Val(prev)]
       ELSE [rule |-> "none", amount |-> 0]

\* the if/else chain that sets amount in rowsToTxns: the branch taken and
\* the amount; rule "none" is the final else (continue)
GenericResolve(r, prev) ==
    LET hasDeposit == IsNumber(r.deposit) /\ Val(r.deposit) > 0
        hasWithdrawal == IsNumber(r.withdrawal) /\ Val(r.withdrawal) > 0
    IN IF hasDeposit /\ hasWithdrawal
       THEN [rule |-> "both", amount |-> Val(r.deposit) - Val(r.withdrawal)]
       ELSE IF hasDeposit THEN [rule |-> "deposit", amount |-> Val(r.deposit)]
       ELSE IF hasWithdrawal THEN [rule |-> "withdrawal", amount |-> 0 - Val(r.withdrawal)]
       ELSE IF IsNumber(r.balance) /\ IsNumber(prev)
       THEN [rule |-> "delta", amount |-> Val(r.balance) - Val(prev)]
       ELSE IF IsNumber(r.txnAmount)
       THEN [rule |-> "hint",
             amount |-> IF creditHintGeneric(r.particulars)
                        THEN Abs(Val(r.txnAmount)) ELSE 0 - Abs(Val(r.txnAmount))]
       ELSE [rule |-> "none", amount |-> 0]

\* confidence: hasDeposit || hasWithdrawal ? 0.84 : 0.68
GenericConfidence(rule) ==
    IF rule \in {"both", "deposit", "withdrawal"} THEN ConfGenericColumns ELSE ConfGenericInferred

\* mutation: an opening balance row leaves prevBalance alone
OpeningSeed_Dropped(r, prev) == prev

\* prevBalance after an opening balance row
OpeningSeed(r, prev) == IF IsNumber(r.balance) THEN r.balance ELSE prev

\* prevBalance after a row that pushed a transaction
CarryBalance(r, prev) == IF IsNumber(r.balance) THEN r.balance ELSE prev

GenericTxn(r, amount, rule) ==
    [ date |-> r.date,
      description |-> r.particulars,
      amount |-> amount,
      drCr |-> DrCrOf(amount),
      currency |-> "INR",
      category |-> inferCategory(r.particulars),
      confidence |-> GenericConfidence(rule),
      sourceParser |-> "generic-v1" ]

\* mutation: a row that no rule resolves is pushed with its amount
rowsToTxnsBody_NoSkip(st, r) ==
    IF isOpeningBalance(r.particulars)
    THEN [st EXCEPT !.prevBalance = OpeningSeed(r, st.prevBalance)]
    ELSE LET res == GenericResolve(r, st.prevBalance)
         IN [ prevBalance |-> CarryBalance(r, st.prevBalance),
              txns |-> Append(st.txns, GenericTxn(r, res.amount, res.rule)),
              via |-> Append(st.via, res.rule) ]

\* one iteration of rowsToTxns' loop on row r
rowsToTxnsBody(st, r) ==
    IF isOpeningBalance(r.particulars)
    THEN [st EXCEPT !.prevBalance = OpeningSeed(r, st.prevBalance)]
    ELSE LET res == GenericResolve(r, st.prevBalance)
         IN IF res.rule = "none" THEN st
            ELSE [ prevBalance |-> CarryBalance(r, st.prevBalance),
                   txns |-> Append(st.txns, GenericTxn(r, res.amount, res.rule)),
                   via |-> Append(st.via, res.rule) ]

LoopStart == [prevBalance |-> None, txns |-> <<>>, via |-> <<>>]

RECURSIVE rowsToTxnsLoop(_, _)
rowsToTxnsLoop(rs, n) ==
    IF n = 0 THEN LoopStart ELSE rowsToTxnsBody(rowsToTxnsLoop(rs, n - 1), rs[n])

rowsToTxns(rs) == rowsToTxnsLoop(rs, Len(rs)).txns

genericCanParse(t) ==
    IF textIncludes(t, "value date") /\ textIncludes(t, "withdraw") /\ textIncludes(t, "deposit") THEN 75
    ELSE IF textIncludes(t, "transaction date") /\ textIncludes(t, "withdraw") THEN 55
    ELSE 20

genericParse(t) == rowsToTxns(parseRows(t))

----------------------------------------------------------------------------
(* icici.ts *)

ConfIcici == 86

creditHintIcici(rest) ==
    \E kw \in {"salary", "interest", "refund", "credit", "cashback", "received"} : itemsInclude(rest, kw)

\* /transaction date|withdrawal amount|deposit amount|balance/i.test(description)
iciciHeaderWords(d) ==
    \E kw \in {"transaction date", "withdrawal amount", "deposit amount", "balance"} : descIncludes(d, kw)

\* withdrawal and deposit of a row with at least two decimal tokens, and the
\* branch that set them
IciciResolve(a, prev, rest) ==
    LET balance == a[Len(a)]
        prev1 == a[Len(a) - 1]
        prev2 == IF Len(a) >= 3 THEN Some(a[Len(a) - 2]) ELSE None
    IN IF IsNumber(prev2)
       THEN [ rule |-> "columns",
              withdrawal |-> IF Val(prev2) > 0 THEN prev2 ELSE None,
              deposit |-> IF prev1 > 0 THEN Some(prev1) ELSE None ]
       ELSE IF IsNumber(prev)
       THEN LET delta == balance - Val(prev)
            IN [ rule |-> "delta",
                 withdrawal |-> IF delta >= 0 THEN None ELSE Some(Abs(delta)),
                 deposit |-> IF delta >= 0 THEN Some(Abs(delta)) ELSE None ]
       ELSE [ rule |-> "hint",
              withdrawal |-> IF creditHintIcici(rest) THEN None ELSE Some(Abs(prev1)),
              deposit |-> IF creditHintIcici(rest) THEN Some(Abs(prev1)) ELSE None ]

\* confidence: 0.86 on every path
IciciConfidence(rule) == ConfIcici

\* mutation: the deposit alone when there is one, as in the older toTxns
IciciAmount_OneSided(res) ==
    IF IsNumber(res.deposit) THEN Val(res.deposit)
    ELSE IF IsNumber(res.withdrawal) THEN 0 - Val(res.withdrawal)
    ELSE 0

\* (deposit ?? 0) - (withdrawal ?? 0)
IciciAmount(res) ==
    (IF IsNumber(res.deposit) THEN Val(res.deposit) ELSE 0)
    - (IF IsNumber(res.withdrawal) THEN Val(res.withdrawal) ELSE 0)

\* line.match(rowRe) of parseIciciRows: one date group, so a second date
\* token is part of the rest
iciciRowRe(line) ==
    LET rest == (IF line.vdate = {} THEN <<>> ELSE <<Word(DateText(Val(line.vdate)))>>) \o line.rest
    IN IF line.date = {} \/ Len(rest) = 0 THEN {}
       ELSE {[date |-> Val(line.date), rest |-> rest]}

\* one iteration of parseIciciRows' loop on a line
parseIciciRowsBody(st, line) ==
    LET matched == iciciRowRe(line)
        m == Val(matched)
        values == amountValues(m.rest)
        res == IciciResolve(values, st.prevBalance, m.rest)
        description == Particulars(m.rest)
        amount == IciciAmount(res)
    IN IF matched = {} THEN st
       ELSE IF Len(amountMatches(m.rest)) < 2 THEN st
       ELSE IF Len(values) < 2 THEN st
       ELSE IF Len(description) = 0 \/ iciciHeaderWords(description) THEN st
       ELSE [ prevBalance |-> Some(Last(values)),
              txns |-> Append(st.txns,
                  [ date |-> toIsoDate(m.date),
                    description |-> description,
                    amount |-> amount,
                    drCr |-> DrCrOf(amount),
                    currency |-> "INR",
                    category |-> inferCategory(description),
                    confidence |-> IciciConfidence(res.rule),
                    sourceParser |-> "icici-v1" ]),
              via |-> Append(st.via, res.rule) ]

RECURSIVE parseIciciRowsLoop(_, _)
parseIciciRowsLoop(lines, n) ==
    IF n = 0 THEN LoopStart ELSE parseIciciRowsBody(parseIciciRowsLoop(lines, n - 1), lines[n])

parseIciciRows(lines) == parseIciciRowsLoop(lines, Len(lines)).txns

iciciCanParse(t) ==
    IF textIncludes(t, "icici bank") /\ textIncludes(t, "transaction remarks") THEN 95
    ELSE IF textIncludes(t, "icici") /\ textIncludes(t, "withdrawal amount") /\ textIncludes(t, "deposit amount")
    THEN 80
    ELSE 5

----------------------------------------------------------------------------
(* route.ts: parseStatementRows and toTxns *)

ConfRouteColumns == 82
ConfRouteInferred == 62

\* balanceType: the last token of the rest when it is DR or CR, else the
\* first standalone DR/CR word of the rest
BalanceTypeOf(rest) ==
    LET marked == SelectSeq(Frags(rest), LAMBDA f : includes(f, "\\b(dr|cr)\\b"))
    IN IF Len(rest) > 0 /\ Last(rest).t = "word" /\ Last(rest).s \in {"DR", "CR"} THEN Last(rest).s
       ELSE IF Len(marked) > 0 THEN (IF includes(marked[1], "cr\\b") THEN "CR" ELSE "DR")
       ELSE ""

\* parseAmountToken of route.ts: a token with a minus sign is not a number
routeParseAmountToken(tok) == IF tok.neg THEN None ELSE parseAmountToken(tok)

routeAmountValues(rest) ==
    LET parsed == SelectSeq(amountMatches(rest), LAMBDA k : IsNumber(routeParseAmountToken(rest[k])))
    IN [j \in 1..Len(parsed) |-> Val(routeParseAmountToken(rest[parsed[j]]))]

RouteRowOf(m) ==
    LET lastThree == LastThree(routeAmountValues(m.restRaw))
    IN [ date |-> toIsoDate(m.date),
         particulars |-> Particulars(m.restRaw),
         withdrawal |-> IF Len(lastThree) = 3 THEN Some(lastThree[1]) ELSE None,
         deposit |-> IF Len(lastThree) = 3 THEN Some(lastThree[2]) ELSE None,
         txnAmount |-> IF Len(lastThree) = 2 THEN Some(lastThree[1]) ELSE None,
         balance |-> IF Len(lastThree) > 0 THEN Some(Last(lastThree)) ELSE None,
         balanceType |-> BalanceTypeOf(m.restRaw) ]

RECURSIVE ParseStatementRowsLoop(_, _)
ParseStatementRowsLoop(lines, n) ==
    IF n = 0 THEN [rows |-> <<>>, inTable |-> FALSE, current |-> {}]
    ELSE LET st == ParseStatementRowsLoop(lines, n - 1)
             line == lines[n]
         IN IF ~st.inTable /\ looksLikeHeader(line)
            THEN [st EXCEPT !.inTable = TRUE]
            ELSE IF ~st.inTable THEN st
            ELSE IF rowRe(line) # {}
            THEN [ rows |-> IF st.current # {} THEN Append(st.rows, Val(st.current)) ELSE st.rows,
                   inTable |-> TRUE,
                   current |-> {RouteRowOf(Val(rowRe(line)))} ]
            ELSE IF st.current # {} /\ ~looksLikeHeader(line)
            THEN [st EXCEPT !.current = {[Val(st.current) EXCEPT !.particulars = @ \o LineFrags(line)]}]
            ELSE st

parseStatementRows(lines) ==
    LET st == ParseStatementRowsLoop(lines, Len(lines))
        all == IF st.current # {} THEN Append(st.rows, Val(st.current)) ELSE st.rows
    IN SelectSeq(all, LAMBDA r : Len(r.particulars) > 0)

\* the if/else chain that sets amount in toTxns; rule "none" leaves amount 0
ToTxnsResolve(r, prev) ==
    LET hasDeposit == IsNumber(r.deposit) /\ Val(r.deposit) > 0
        hasWithdrawal == IsNumber(r.withdrawal) /\ Val(r.withdrawal) > 0
    IN IF hasDeposit /\ hasWithdrawal
       THEN [rule |-> "both", amount |-> Val(r.deposit) - Val(r.withdrawal)]
       ELSE IF hasDeposit THEN [rule |-> "deposit", amount |-> Val(r.deposit)]
       ELSE IF hasWithdrawal THEN [rule |-> "withdrawal", amount |-> 0 - Val(r.withdrawal)]
       ELSE IF IsNumber(r.balance) /\ IsNumber(prev)
       THEN [rule |-> "delta", amount |-> Val(r.balance) - Val(prev)]
       ELSE IF IsNumber(r.txnAmount)
       THEN [rule |-> "hint",
             amount |-> IF creditHintGeneric(r.particulars)
                        THEN Abs(Val(r.txnAmount)) ELSE 0 - Abs(Val(r.txnAmount))]
       ELSE IF IsNumber(r.balance)
       THEN [rule |-> "balance",
             amount |-> IF r.balanceType = "CR" THEN Abs(Val(r.balance)) ELSE 0 - Abs(Val(r.balance))]
       ELSE [rule |-> "none", amount |-> 0]

\* prevBalance after a row: the balance, negative when balanceType is DR
SignedBalance(r, prev) ==
    IF IsNumber(r.balance)
    THEN (IF r.balanceType = "DR" THEN Some(0 - Abs(Val(r.balance))) ELSE Some(Abs(Val(r.balance))))
    ELSE prev

\* one iteration of toTxns' loop on rows[n]
toTxnsBody(st, r, n) ==
    LET res == ToTxnsResolve(r, st.prevBalance)
    IN IF isOpeningBalance(r.particulars)
       THEN [st EXCEPT !.prevBalance = SignedBalance(r, st.prevBalance)]
       ELSE [ prevBalance |-> SignedBalance(r, st.prevBalance),
              txns |-> Append(st.txns,
                  [ id |-> <<r.date, n>>,
                    date |-> r.date,
                    description |-> r.particulars,
                    amount |-> res.amount,
                    drCr |-> DrCrOf(res.amount),
                    currency |-> "INR",
                    category |-> inferCategory(r.particulars),
                    confidence |-> IF res.rule \in {"both", "deposit", "withdrawal"}
                                   THEN ConfRouteColumns ELSE ConfRouteInferred ]),
              via |-> Append(st.via, res.rule) ]

----------------------------------------------------------------------------------------------------------------------------------------
(* route.ts: buildInsights *)

\* the characters of a string, one-character strings
Chars(s) == [k \in 1..Len(s) |-> SubSeq(s, k, k)]
Lower == Chars("abcdefghijklmnopqrstuvwxyz")
Upper == Chars("ABCDEFGHIJKLMNOPQRSTUVWXYZ")
Digit == {Chars("0123456789")[k] : k \in 1..10}
\* \w of the regular expressions
WordChar == {Lower[k] : k \in 1..26} \cup {Upper[k] : k \in 1..26} \cup Digit \cup {"_"}

\* Array.prototype.join(" ") on a list of strings
RECURSIVE Join(_)
Join(d) == IF Len(d) = 0 THEN "" ELSE IF Len(d) = 1 THEN d[1] ELSE d[1] \o " " \o Join(Tail(d))

\* the strings of a list, one after the other
RECURSIVE Concat(_)
Concat(strs) ==
    IF Len(strs) = 0 THEN ""
    ELSE IF Len(strs) = 1 THEN strs[1]
    ELSE LET h == Len(strs) \div 2
         IN Concat(SubSeq(strs, 1, h)) \o Concat(SubSeq(strs, h + 1, Len(strs)))

\* String.prototype.toUpperCase, character by character
toUpperCase(s) ==
    Concat(<<>> \o [n \in 1..Len(s) |->
        LET c == SubSeq(s, n, n)
        IN IF \E k \in 1..26 : Lower[k] = c THEN Upper[CHOOSE k \in 1..26 : Lower[k] = c] ELSE c])

\* the maximal runs of \w characters and of other characters of s, in order
Runs(s) ==
    LET w == <<>> \o [k \in 1..Len(s) |-> SubSeq(s, k, k) \in WordChar]
        starts == {k \in 1..Len(s) : k = 1 \/ w[k - 1] # w[k]}
        ends == {k \in 1..Len(s) : k = Len(s) \/ w[k + 1] # w[k]}
        nth(S, j) == CHOOSE k \in S : Cardinality({x \in S : x < k}) = j - 1
    IN <<>> \o [j \in 1..Cardinality(starts) |->
                   [w |-> w[nth(starts, j)], s |-> SubSeq(s, nth(starts, j), nth(ends, j))]]

\* the words that normalizeMerchant blanks: \b(UPI|IMPS|...|ID)\b matches a
\* maximal run of \w characters that is one of them
MerchantNoise ==
    {"UPI", "IMPS", "NEFT", "RTGS", "POS", "ATM", "TO", "BY", "TRANSFER", "PAYMENT", "DEBIT",
     "CREDIT", "REF", "TXN", "ID"}

\* .replace(/\b(UPI|...|ID)\b/g, " ")
BlankNoise(runs) ==
    Concat(<<>> \o [n \in 1..Len(runs) |->
        IF runs[n].w /\ runs[n].s \in MerchantNoise THEN " " ELSE runs[n].s])

\* .replace(/[0-9#*._\/-]+/g, " "): a run of such characters becomes one
\* space; here each becomes a space and the next step joins them
BlankDigits(s) ==
    Concat(<<>> \o [n \in 1..Len(s) |->
        LET c == SubSeq(s, n, n)
        IN IF c \in Digit \cup {"#", "*", ".", "_", "/", "-"} THEN " " ELSE c])

\* .replace(/\s+/g, " ").trim(): a space stays when the character before it
\* is not a space, and not at the end
Squeeze(s) ==
    LET kept == Concat(<<>> \o [n \in 1..Len(s) |->
                    LET c == SubSeq(s, n, n)
                    IN IF c = " " /\ (n = 1 \/ SubSeq(s, n - 1, n - 1) = " ") THEN "" ELSE c])
    IN IF Len(kept) > 0 /\ SubSeq(kept, Len(kept), Len(kept)) = " "
       THEN SubSeq(kept, 1, Len(kept) - 1)
       ELSE kept

\* normalizeMerchant on a description, the list of its fragments
normalizeMerchant(description) ==
    Squeeze(BlankDigits(BlankNoise(Runs(toUpperCase(Join(description))))))

\* monthKey: the year and the month of a date of the form YYYY-MM-DD, {} for
\* null
monthKey(date) ==
    IF date.built /\ date.ydigits = 4 /\ date.mdigits = 2 /\ date.ddigits = 2
    THEN {<<date.yyyy, date.mm>>} ELSE {}

\* mutation: a debit is told by the sign of the amount alone
IsDebit_BySign(t) == t.amount < 0

\* txns.filter(t => (t.drCr ? t.drCr === "DR" : t.amount < 0)); an absent
\* drCr is the empty string
IsDebit(t) == IF t.drCr # "" THEN t.drCr = "DR" ELSE t.amount < 0
\* txns.filter(t => (t.drCr ? t.drCr === "CR" : t.amount > 0))
IsCredit(t) == IF t.drCr # "" THEN t.drCr = "CR" ELSE t.amount > 0

\* mutation: the amounts are added with their signs
RECURSIVE SumAbs_Signed(_)
SumAbs_Signed(list) ==
    IF Len(list) = 0 THEN 0 ELSE SumAbs_Signed(SubSeq(list, 1, Len(list) - 1)) + Last(list).amount

\* list.reduce((sum, t) => sum + Math.abs(t.amount), 0)
RECURSIVE SumAbs(_)
SumAbs(list) ==
    IF Len(list) = 0 THEN 0
    ELSE IF Len(list) = 1 THEN Abs(list[1].amount)
    ELSE LET h == Len(list) \div 2 IN SumAbs(SubSeq(list, 1, h)) + SumAbs(SubSeq(list, h + 1, Len(list)))

\* Array.prototype.sort with the comparator (a, b) => b.key - a.key on
\* records with a field key: descending, equal keys keep their order
RECURSIVE sortDescending(_)
sortDescending(list) ==
    IF Len(list) = 0 THEN <<>>
    ELSE LET rest == sortDescending(SubSeq(list, 1, Len(list) - 1))
             e == Last(list)
             p == Cardinality({k \in 1..Len(rest) : rest[k].key >= e.key})
         IN SubSeq(rest, 1, p) \o <<e>> \o SubSeq(rest, p + 1, Len(rest))

\* .slice(0, n)
slice(list, n) == IF Len(list) <= n THEN list ELSE SubSeq(list, 1, n)

\* the keys of a Map in insertion order: the distinct members of a list of
\* keys, each where it comes first
RECURSIVE MapKeys(_)
MapKeys(ks) ==
    IF Len(ks) <= 1 THEN ks
    ELSE LET h == Len(ks) \div 2
             first == MapKeys(SubSeq(ks, 1, h))
             later == MapKeys(SubSeq(ks, h + 1, Len(ks)))
         IN first \o SelectSeq(later, LAMBDA x : \A k \in 1..Len(first) : first[k] # x)

\* monthOverMonth: the transactions with a month key, grouped by it; the type
\* is drCr, or the sign of the amount when drCr is absent; the months sorted
\* by localeCompare, which on YYYY-MM strings is the order of the numbers
monthOverMonth(list) ==
    LET dated == SelectSeq(list, LAMBDA t : monthKey(t.date) # {})
        keys == MapKeys([k \in 1..Len(dated) |-> Val(monthKey(dated[k].date))])
        TypeOf(t) == IF t.drCr # "" THEN t.drCr ELSE IF t.amount >= 0 THEN "CR" ELSE "DR"
        entry(mk) ==
            LET income == SumAbs(SelectSeq(dated, LAMBDA t : Val(monthKey(t.date)) = mk /\ TypeOf(t) = "CR"))
                expense == SumAbs(SelectSeq(dated, LAMBDA t : Val(monthKey(t.date)) = mk /\ TypeOf(t) # "CR"))
            IN [month |-> mk, income |-> income, expense |-> expense, net |-> income - expense,
                key |-> 0 - (mk[1] * 100 + mk[2])]
        sorted == sortDescending([k \in 1..Len(keys) |-> entry(keys[k])])
    IN [k \in 1..Len(sorted) |->
           [month |-> sorted[k].month, income |-> sorted[k].income, expense |-> sorted[k].expense,
            net |-> sorted[k].net]]

\* merchant.length < 3 is skipped
MinMerchantLength == 3
\* .slice(0, 10) of the subscriptions
SubscriptionCap == 10

\* mutation: one month is enough for a subscription
Recurring_OneMonth(g) == g.count >= 2

\* .filter(g => g.count >= 2 && g.monthCount >= 2)
Recurring(g) == g.count >= 2 /\ g.monthCount >= 2

\* subscriptions: the debits grouped by normalized merchant; avgAmount is
\* the quotient total / count
subscriptions(debits) ==
    LET merchants == <<>> \o [k \in 1..Len(debits) |->
                                 [merchant |-> normalizeMerchant(debits[k].description),
                                  date |-> debits[k].date, amount |-> debits[k].amount]]
        named == SelectSeq(merchants, LAMBDA t : Len(t.merchant) >= MinMerchantLength)
        keys == MapKeys([k \in 1..Len(named) |-> named[k].merchant])
        group(m) ==
            LET members == SelectSeq(named, LAMBDA t : t.merchant = m)
                months == {Val(monthKey(members[k].date)) :
                               k \in {j \in 1..Len(members) : monthKey(members[j].date) # {}}}
                total == SumAbs(members)
            IN [merchant |-> m, count |-> Len(members), monthCount |-> Cardinality(months),
                avgAmount |-> [num |-> total, den |-> Len(members)], totalAmount |-> total,
                key |-> total]
        groups == [k \in 1..Len(keys) |-> group(keys[k])]
        kept == slice(sortDescending(SelectSeq(groups, Recurring)), SubscriptionCap)
    IN [k \in 1..Len(kept) |->
           [merchant |-> kept[k].merchant, count |-> kept[k].count, avgAmount |-> kept[k].avgAmount,
            totalAmount |-> kept[k].totalAmount]]

\* Math.abs(t.amount) > 1000, in hundredths
UnusualFloor == 100000
\* .slice(0, 10) of the unusual spends
UnusualCap == 10

RECURSIVE Gcd(_, _)
Gcd(a, b) == IF b = 0 THEN a ELSE Gcd(b, a % b)

\* debitAbs: the magnitudes of the debits
debitAbs(debits) == <<>> \o [k \in 1..Len(debits) |-> Abs(debits[k].amount)]

\* The mean and the standard deviation are not numbers of hundredths, so
\* the model compares with them without computing them.  The comparisons
\* are the same in any unit of money: the magnitudes are taken in units of
\* their greatest common divisor, which keeps the squares small.
RECURSIVE CommonUnit(_)
CommonUnit(mags) ==
    IF Len(mags) = 0 THEN 0
    ELSE IF Len(mags) = 1 THEN mags[1]
    ELSE LET h == Len(mags) \div 2
         IN Gcd(CommonUnit(SubSeq(mags, 1, h)), CommonUnit(SubSeq(mags, h + 1, Len(mags))))
Units(mags) ==
    LET g == CommonUnit(mags)
    IN IF g = 0 THEN mags ELSE <<>> \o [k \in 1..Len(mags) |-> mags[k] \div g]

RECURSIVE Sum(_)
Sum(vs) ==
    IF Len(vs) = 0 THEN 0
    ELSE IF Len(vs) = 1 THEN vs[1]
    ELSE LET h == Len(vs) \div 2 IN Sum(SubSeq(vs, 1, h)) + Sum(SubSeq(vs, h + 1, Len(vs)))

\* length^3 * variance: the sum of (length * v - sum)^2, and 0 for fewer
\* than two values as in the code
CubeVariance(vs) ==
    LET n == Len(vs)
        s == Sum(vs)
    IN IF n > 1 THEN Sum(<<>> \o [k \in 1..n |-> (n * vs[k] - s) * (n * vs[k] - s)]) ELSE 0

\* The threshold is computed in IEEE-754 doubles, and a magnitude that is
\* equal to the exact threshold is above the computed one when the rounding
\* of the mean, the squares, the square root and the sum ends below it.
\* These are the lists of magnitudes, among those the model is run on, for
\* which it does: for four debits of 100.10 followed by one of 1801.80 the
\* doubles give 1801.7999999999997.
DoubleBelowExact == { <<10010, 10010, 10010, 10010, 180180>> }

\* mutation: the mean * 1.8 branch of the threshold is left out
AboveThreshold_NoMeanBranch(k, mags) ==
    LET vs == Units(mags)
        n == Len(vs)
        d == n * vs[k] - Sum(vs)
    IN d > 0 /\ n * d * d > 4 * CubeVariance(vs)

\* Math.abs(t.amount) > Math.max(mean * 1.8, mean + 2 * stdDev) for the k-th
\* magnitude: v > mean * 1.8 is 5 * n * v > 9 * sum, and v > mean + 2 * stdDev
\* is n * v > sum and n * (n * v - sum)^2 > 4 * n^3 * variance
AboveThreshold(k, mags) ==
    LET vs == Units(mags)
        n == Len(vs)
        d == n * vs[k] - Sum(vs)
    IN /\ 5 * n * vs[k] > 9 * Sum(vs)
       /\ d > 0
       /\ \/ n * d * d > 4 * CubeVariance(vs)
          \/ n * d * d = 4 * CubeVariance(vs) /\ mags \in DoubleBelowExact

\* mutation: no floor
AboveFloor_None(v) == TRUE

\* Math.abs(t.amount) > 1000
AboveFloor(v) == v > UnusualFloor

\* unusualSpends: the debits above the threshold and above the floor, the
\* largest first, ten at most
unusualSpends(debits) ==
    LET mags == debitAbs(debits)
        flagged == SelectSeq([k \in 1..Len(debits) |-> [t |-> debits[k], key |-> mags[k], k |-> k]],
                             LAMBDA e : AboveThreshold(e.k, mags) /\ AboveFloor(e.key))
        kept == slice(sortDescending(flagged), UnusualCap)
    IN [k \in 1..Len(kept) |->
           [id |-> kept[k].t.id, date |-> kept[k].t.date, description |-> kept[k].t.description,
            amount |-> kept[k].key]]

\* the totals of buildInsights.  A quotient is the pair of its numerator and
\* denominator; null is {}.
buildInsights(list) ==
    LET debits == SelectSeq(list, IsDebit)
        credits == SelectSeq(list, IsCredit)
        totalDebits == SumAbs(debits)
        totalCredits == SumAbs(credits)
    IN [ transactionCount |-> Len(list),
         totalDebits |-> totalDebits,
         totalCredits |-> totalCredits,
         netFlow |-> totalCredits - totalDebits,
         incomeExpenseRatio |-> IF totalDebits > 0
                                THEN {[num |-> totalCredits, den |-> totalDebits]} ELSE {},
         monthOverMonth |-> monthOverMonth(list),
         subscriptions |-> subscriptions(debits),
         unusualSpends |-> unusualSpends(debits) ]

----------------
(* index.ts: the registry *)

PARSERS == <<"icici-v1", "generic-v1">>

\* parser.canParse(text) and parser.parse(text) of the registered strategies
canParse(id, t) == IF id = "icici-v1" THEN iciciCanParse(t) ELSE genericCanParse(t)
parse(id, t) == IF id = "icici-v1" THEN parseIciciRows(t) ELSE genericParse(t)

RECURSIVE SumConfidence(_, _)
SumConfidence(ts, n) == IF n = 0 THEN 0 ELSE SumConfidence(ts, n - 1) + ts[n].confidence

\* mutation: the hint is left out of the score of a non-empty result
parserScore_NoHint(ts, hint) ==
    IF Len(ts) = 0 THEN hint * 500
    ELSE (Len(ts) * (5500 * Len(ts) + 45 * SumConfidence(ts, Len(ts)))) \div Len(ts)

\* parserScore in ten-thousandths, hint and confidences in hundredths:
\* length * (0.55 + avgConf * 0.45) + hint * 25 with avgConf = sum / length
parserScore(ts, hint) ==
    IF Len(ts) = 0 THEN hint * 500
    ELSE (Len(ts) * (5500 * Len(ts) + 45 * SumConfidence(ts, Len(ts)))) \div Len(ts) + hint * 2500

\* mutation: a later strategy replaces an equal earlier one
Better_OrEqual(score, bestScore) == score >= bestScore

\* score > best.score
Better(score, bestScore) == score > bestScore

NoBest == [parserId |-> "none", score |-> 0, txns |-> <<>>]

\* what the call of strategy p returns on the text under analysis
HintOf(p) == IF stubs = <<>> THEN canParse(PARSERS[p], text) ELSE stubs[p].hint
TxnsOf(p) == IF stubs = <<>> THEN parse(PARSERS[p], text) ELSE stubs[p].txns

\* the call of strategy p that the loop makes throws
Raises(p) ==
    /\ stubs # <<>>
    /\ \/ stubs[p].raises = "canParse"
       \/ stubs[p].raises = "parse" /\ stubs[p].hint > 0

\* one iteration of the loop of runParserPipeline that completes
Evaluate ==
    /\ pc = "runParserPipeline"
    /\ i <= Len(PARSERS)
    /\ ~Raises(i)
    /\ LET hint == HintOf(i)
           parsed == TxnsOf(i)
           score == parserScore(parsed, hint)
       IN IF hint <= 0
          THEN UNCHANGED <<best, scored>>
          ELSE /\ best' = IF Better(score, best.score)
                          THEN [parserId |-> PARSERS[i], score |-> score, txns |-> parsed]
                          ELSE best
               /\ scored' = Append(scored, [parserId |-> PARSERS[i], score |-> score])
    /\ i' = i + 1
    /\ UNCHANGED <<calls, text, pc, rows, prevBalance, txns, via, stubs, prior, result, insights, arg, ret>>

\* canParse or parse throws: nothing catches it in runParserPipeline
Raise ==
    /\ pc = "runParserPipeline"
    /\ i <= Len(PARSERS)
    /\ Raises(i)
    /\ pc' = "thrown"
    /\ UNCHANGED <<calls, text, i, rows, prevBalance, txns, via, best, scored, stubs, prior, result, insights, arg, ret>>

\* return best
Return ==
    /\ pc = "runParserPipeline"
    /\ i > Len(PARSERS)
    /\ pc' = "returned"
    /\ UNCHANGED <<calls, text, i, rows, prevBalance, txns, via, best, scored, stubs, prior, result, insights, arg, ret>>

\* a second call of runParserPipeline on the same text
Rerun ==
    /\ pc = "returned"
    /\ prior = {}
    /\ prior' = {best}
    /\ pc' = "runParserPipeline"
    /\ i' = 1
    /\ best' = NoBest
    /\ scored' = <<>>
    /\ UNCHANGED <<calls, text, rows, prevBalance, txns, via, stubs, result, insights, arg, ret>>

\* the decimal digits of n, with zeros in front up to the given width
RECURSIVE Padded(_, _)
Padded(n, width) == IF Len(ToString(n)) >= width THEN ToString(n) ELSE "0" \o Padded(n, width - 1)

\* the characters of the date that toIsoDate returned
DateString(date) ==
    IF date.built
    THEN Padded(date.yyyy, date.ydigits) \o "-" \o Padded(date.mm, date.mdigits)
         \o "-" \o Padded(date.dd, date.ddigits)
    ELSE DateText(Val(date.raw))

\* mutation: the id is made of the date and the parser id alone
MapTxn_NoOrdinal(t, parserId, n) ==
    [ id |-> DateString(t.date) \o "-" \o parserId,
      date |-> t.date,
      description |-> t.description,
      amount |-> t.amount,
      drCr |-> t.drCr,
      sourceParser |-> t.sourceParser,
      currency |-> t.currency,
      category |-> t.category,
      confidence |-> t.confidence ]

\* route.ts parseTransactionsFromText: the map over result.txns; n is i + 1
MapTxn(t, parserId, n) ==
    [ id |-> DateString(t.date) \o "-" \o parserId \o "-" \o ToString(n),
      date |-> t.date,
      description |-> t.description,
      amount |-> t.amount,
      drCr |-> t.drCr,
      sourceParser |-> t.sourceParser,
      currency |-> t.currency,
      category |-> t.category,
      confidence |-> t.confidence ]

\* runParserPipeline as a function of the text: best after the first n
\* strategies
RECURSIVE PipelineLoop(_, _)
PipelineLoop(t, n) ==
    IF n = 0 THEN NoBest
    ELSE LET before == PipelineLoop(t, n - 1)
             hint == canParse(PARSERS[n], t)
             parsed == parse(PARSERS[n], t)
             score == parserScore(parsed, hint)
         IN IF hint > 0 /\ Better(score, before.score)
            THEN [parserId |-> PARSERS[n], score |-> score, txns |-> parsed]
            ELSE before
runParserPipeline(t) == PipelineLoop(t, Len(PARSERS))

\* parseTransactionsFromText as a function of the text
parseTransactionsFromText(t) ==
    LET r == runParserPipeline(t)
    IN [n \in 1..Len(r.txns) |-> MapTxn(r.txns[n], r.parserId, n)]

\* POST: the list of parseTransactionsFromText and the insights over it
MapResult ==
    /\ pc = "returned"
    /\ stubs = <<>>
    /\ result' = [n \in 1..Len(best.txns) |-> MapTxn(best.txns[n], best.parserId, n)]
    /\ insights' = {buildInsights(result')}
    /\ pc' = "mapped"
    /\ UNCHANGED <<calls, text, i, rows, prevBalance, txns, via, best, scored, stubs, prior, arg, ret>>

----------------------------------------------------------------------------
(* The row passes, one loop iteration per step *)

GenericRow ==
    /\ pc = "rowsToTxns"
    /\ i <= Len(rows)
    /\ LET st == rowsToTxnsBody([prevBalance |-> prevBalance, txns |-> txns, via |-> via], rows[i])
       IN /\ prevBalance' = st.prevBalance
          /\ txns' = st.txns
          /\ via' = st.via
    /\ i' = i + 1
    /\ UNCHANGED <<calls, text, pc, rows, best, scored, stubs, prior, result, insights, arg, ret>>

IciciLine ==
    /\ pc = "parseIciciRows"
    /\ i <= Len(text)
    /\ LET st == parseIciciRowsBody([prevBalance |-> prevBalance, txns |-> txns, via |-> via], text[i])
       IN /\ prevBalance' = st.prevBalance
          /\ txns' = st.txns
          /\ via' = st.via
    /\ i' = i + 1
    /\ UNCHANGED <<calls, text, pc, rows, best, scored, stubs, prior, result, insights, arg, ret>>

ToTxnsRow ==
    /\ pc = "toTxns"
    /\ i <= Len(rows)
    /\ LET st == toTxnsBody([prevBalance |-> prevBalance, txns |-> txns, via |-> via], rows[i], i)
       IN /\ prevBalance' = st.prevBalance
          /\ txns' = st.txns
          /\ via' = st.via
    /\ i' = i + 1
    /\ UNCHANGED <<calls, text, pc, rows, best, scored, stubs, prior, result, insights, arg, ret>>

\* return txns
PassReturn ==
    /\ pc \in {"rowsToTxns", "parseIciciRows", "toTxns"}
    /\ i > (IF pc = "parseIciciRows" THEN Len(text) ELSE Len(rows))
    /\ result' = txns
    /\ pc' = CASE pc = "rowsToTxns" -> "rowsToTxns.return"
              [] pc = "parseIciciRows" -> "parseIciciRows.return"
              [] OTHER -> "toTxns.return"
    /\ UNCHANGED <<calls, text, i, rows, prevBalance, txns, via, best, scored, stubs, prior, insights, arg, ret>>

----------------------------------------------------------------------------
(* Specifications *)

\* lines of the texts given to the whole pipeline
PipelineLines ==
    { TxtLine(HdrGeneric), TxtLine(HdrIcici),
      RowLine(DescNeftIcici, <<30000, 0, 20000>>, ""),
      RowLine(DescSalary, <<0, 10000, 60000>>, ""),
      RowLine(DescUpi, <<50000>>, ""),
      RowLine(DescSalary, <<20000, 70000>>, ""),
      RowLine(DescUpi, <<30000, 10000, 50000>>, ""),
      RowLine(DescOpening, <<50000>>, "") }

\* parseTransactionsFromText on a text, with the registered strategies
Init ==
    /\ calls = <<>>
    /\ text \in SeqsUpTo(PipelineLines, MaxLines)
    /\ pc = "runParserPipeline"
    /\ i = 1
    /\ rows = <<>>
    /\ prevBalance = None
    /\ txns = <<>>
    /\ via = <<>>
    /\ best = NoBest
    /\ scored = <<>>
    /\ stubs = <<>>
    /\ prior = {}
    /\ result = <<>>
    /\ insights = {}
    /\ arg = {}
    /\ ret = {}

Next == Evaluate \/ Return \/ MapResult

Spec == Init /\ [][Next]_vars

\* runParserPipeline over two strategies known only by the StatementParser
\* interface: canParse returns a number in 0..1, parse a ParserTxn list,
\* and either call may throw
StubHints == {0, 40, 80}
StubConfidences == {60, 80}
StubTxns == { [n \in 1..Len(cs) |-> [confidence |-> cs[n]]] : cs \in SeqsUpTo(StubConfidences, MaxStubTxns) }
StubBehaviours == [hint : StubHints, txns : StubTxns, raises : {"", "canParse", "parse"}]

InitRegistry ==
    /\ calls = <<>>
    /\ stubs \in [1..Len(PARSERS) -> StubBehaviours]
    /\ text = <<>>
    /\ pc = "runParserPipeline"
    /\ i = 1
    /\ rows = <<>>
    /\ prevBalance = None
    /\ txns = <<>>
    /\ via = <<>>
    /\ best = NoBest
    /\ scored = <<>>
    /\ prior = {}
    /\ result = <<>>
    /\ insights = {}
    /\ arg = {}
    /\ ret = {}

NextRegistry == Evaluate \/ Raise \/ Return \/ Rerun

SpecRegistry == InitRegistry /\ [][NextRegistry]_vars

\* the three row passes on a table: a header line and up to MaxRows rows
InitPass ==
    /\ calls = <<>>
    /\ pc \in {"rowsToTxns", "parseIciciRows", "toTxns"}
    /\ \E body \in SeqsUpTo(IF pc = "toTxns" THEN PlainRows \cup MarkedRows ELSE PlainRows, MaxRows) :
          text = <<TxtLine(HdrGeneric)>> \o body
    /\ rows = CASE pc = "rowsToTxns" -> parseRows(text)
                 [] pc = "toTxns" -> parseStatementRows(text)
                 [] OTHER -> <<>>
    /\ i = 1
    /\ prevBalance = None
    /\ txns = <<>>
    /\ via = <<>>
    /\ best = NoBest
    /\ scored = <<>>
    /\ stubs = <<>>
    /\ prior = {}
    /\ result = <<>>
    /\ insights = {}
    /\ arg = {}
    /\ ret = {}

NextPass == GenericRow \/ IciciLine \/ ToTxnsRow \/ PassReturn

SpecPass == InitPass /\ [][NextPass]_vars

----------------------------------------------------------------------------
(* Properties of the registry *)

\* C1: when a registered strategy's canParse or parse raises an error, the
\* error does not leave runParserPipeline: no run ends with the error thrown
\* to the caller.
C1_FailureIsolated == pc # "thrown"

\* C2: when an earlier registered strategy and a later one obtain the same
\* score, the later one is not the strategy returned (ICICI before generic),
\* and a second run on the same input returns the same result as the first.
C2_FirstRegisteredWinsTies ==
    pc = "returned" =>
        /\ \A j, k \in 1..Len(scored) :
              (j < k /\ scored[j].score = scored[k].score) => best.parserId # scored[k].parserId
        /\ (prior # {} => best = Val(prior))

\* both strategies were scored equal, the first registered was returned, twice
C2_Witness ==
    /\ pc = "returned"
    /\ prior # {}
    /\ Len(scored) = 2
    /\ scored[1].score = scored[2].score
    /\ best.parserId = "icici-v1"
    /\ Len(best.txns) > 0

\* C3: the strategies scored are exactly those whose hint is > 0; each
\* score is n * (0.55 + averageConfidence * 0.45) + hint * 25 for n > 0
\* transactions and hint * 5 for none; the result returned is one scored
\* strategy with its own score and its own transaction list, and no scored
\* strategy has a greater score.
C3_ReturnsMaximalQuality ==
    pc = "returned" =>
        LET ran == { p \in 1..Len(PARSERS) : HintOf(p) > 0 }
            n(p) == Len(TxnsOf(p))
            \* quality times n, in ten-thousandths
            qualityTimesN(p) == n(p) * (5500 * n(p) + 45 * SumConfidence(TxnsOf(p), n(p)))
                                + HintOf(p) * 2500 * n(p)
            isQuality(p, q) == IF n(p) = 0 THEN q = HintOf(p) * 500 ELSE q * n(p) = qualityTimesN(p)
        IN /\ { scored[k].parserId : k \in 1..Len(scored) } = { PARSERS[p] : p \in ran }
           /\ Len(scored) = Cardinality(ran)
           /\ \A k \in 1..Len(scored) : \A p \in ran :
                 scored[k].parserId = PARSERS[p] => isQuality(p, scored[k].score)
           /\ \A k \in 1..Len(scored) : scored[k].score <= best.score
           /\ IF ran = {} THEN best = NoBest
              ELSE \E p \in ran : /\ best.parserId = PARSERS[p]
                                  /\ best.txns = TxnsOf(p)
                                  /\ isQuality(p, best.score)

\* both strategies extracted transactions and the second registered one,
\* with the greater quality, was returned
C3_Witness ==
    /\ pc = "returned"
    /\ Len(scored) = 2
    /\ scored[2].score > scored[1].score
    /\ best.parserId = "generic-v1"
    /\ Len(TxnsOf(1)) > 0
    /\ Len(best.txns) > 0
    /\ best.txns # TxnsOf(1)

----------------------------------------------------------------------------
(* Properties of the transactions and of the row passes *)

SignAgrees(t) == t.drCr = (IF t.amount >= 0 THEN "CR" ELSE "DR")

\* C4: every transaction returned by parseTransactionsFromText, and every
\* transaction either strategy extracts from the text, has drCr = CR when
\* its amount is >= 0 and drCr = DR when its amount is < 0.
C4_DrCrMatchesSign ==
    /\ \A n \in 1..Len(result) : SignAgrees(result[n])
    /\ \A n \in 1..Len(best.txns) : SignAgrees(best.txns[n])
    /\ pc = "returned" =>
          \A p \in 1..Len(PARSERS) :
              LET extracted == TxnsOf(p) IN \A n \in 1..Len(extracted) : SignAgrees(extracted[n])

\* a run returned a debit and a zero-amount credit
C4_Witness ==
    /\ pc = "mapped"
    /\ \E n \in 1..Len(result) : result[n].amount < 0 /\ result[n].drCr = "DR"
    /\ \E n \in 1..Len(result) : result[n].amount = 0 /\ result[n].drCr = "CR"
    /\ \E n \in 1..Len(result) : result[n].amount > 0 /\ result[n].drCr = "CR"

\* the numbers parseIciciRows reads on a line; none when the line is no row
IciciValues(line) ==
    IF iciciRowRe(line) = {} THEN <<>> ELSE amountValues(Val(iciciRowRe(line)).rest)

\* the step pushes one transaction, with this amount
Pushes(amount) == Len(txns') = Len(txns) + 1 /\ txns'[Len(txns')].amount = amount

Positive(o) == IsNumber(o) /\ Val(o) > 0

\* C5: in rowsToTxns, a row that is not an opening balance row gets its
\* amount from the first applicable of: deposit - withdrawal when both are
\* > 0; +deposit when only it is > 0; -withdrawal when only it is > 0;
\* balance - previousBalance when the row has a balance and previousBalance
\* is known; +|txnAmount| or -|txnAmount| by the credit hint when the row
\* has a txnAmount.
C5_ResolutionOrder ==
    [][ (pc = "rowsToTxns" /\ i <= Len(rows) /\ ~isOpeningBalance(rows[i].particulars)) =>
          LET r == rows[i]
          IN IF Positive(r.deposit) /\ Positive(r.withdrawal)
             THEN Pushes(Val(r.deposit) - Val(r.withdrawal))
             ELSE IF Positive(r.deposit) THEN Pushes(Val(r.deposit))
             ELSE IF Positive(r.withdrawal) THEN Pushes(0 - Val(r.withdrawal))
             ELSE IF IsNumber(r.balance) /\ IsNumber(prevBalance)
             THEN Pushes(Val(r.balance) - Val(prevBalance))
             ELSE IF IsNumber(r.txnAmount)
             THEN Pushes(IF creditHintGeneric(r.particulars)
                         THEN Abs(Val(r.txnAmount)) ELSE 0 - Abs(Val(r.txnAmount)))
             ELSE TRUE ]_vars

\* the second row has a txnAmount, a balance and a credit hint, the previous
\* balance was known, and its amount is the balance delta, not +txnAmount
C5_Witness ==
    /\ pc = "rowsToTxns"
    /\ i = 3
    /\ Len(txns) = 2
    /\ IsNumber(rows[1].balance)
    /\ IsNumber(rows[2].txnAmount) /\ IsNumber(rows[2].balance)
    /\ creditHintGeneric(rows[2].particulars)
    /\ txns[2].amount = Val(rows[2].balance) - Val(rows[1].balance)
    /\ txns[2].amount # Val(rows[2].txnAmount)

BalanceOnly(r) ==
    /\ IsNumber(r.balance)
    /\ ~IsNumber(r.withdrawal) /\ ~IsNumber(r.deposit) /\ ~IsNumber(r.txnAmount)

\* C7: a row with only a balance, met while no previous balance is known,
\* becomes a transaction of magnitude |balance|, negative when balanceType
\* is DR and positive when it is CR or absent.
C7_BalanceOnlyFallback ==
    [][ (pc \in {"toTxns", "rowsToTxns"} /\ i <= Len(rows) /\ BalanceOnly(rows[i])
         /\ ~IsNumber(prevBalance) /\ ~isOpeningBalance(rows[i].particulars)) =>
          Pushes(IF pc = "toTxns" /\ rows[i].balanceType = "DR"
                 THEN 0 - Abs(Val(rows[i].balance)) ELSE Abs(Val(rows[i].balance))) ]_vars

\* C8: previousBalance starts empty and, after any row that exposes a
\* balance has been processed, equals that row's balance, whether or not
\* the row yielded a transaction, in rowsToTxns and in parseIciciRows.
C8_PrevBalanceFollowsEveryBalance ==
    [][ /\ (pc = "rowsToTxns" /\ i <= Len(rows) /\ IsNumber(rows[i].balance))
           => prevBalance' = rows[i].balance
        /\ (pc = "parseIciciRows" /\ i <= Len(text) /\ Len(IciciValues(text[i])) > 0)
           => prevBalance' = Some(Last(IciciValues(text[i]))) ]_vars

C10_ColumnsOutrankInferred ==
    /\ \A n \in 1..Len(txns) : txns[n].confidence >= 0 /\ txns[n].confidence <= 100
    /\ \A j, k \in 1..Len(txns) :
          (via[j] \in {"both", "deposit", "withdrawal", "columns"} /\ via[k] \in {"delta", "hint"})
              => txns[j].confidence > txns[k].confidence

----------------------------------------------------------------------------
(* Row order and the header gate, on the whole pipeline *)

\* the numbers parseRows reads on a line; none when the line is no row
GenericValues(line) ==
    IF rowRe(line) = {} THEN <<>> ELSE amountValues(Val(rowRe(line)).restRaw)

\* a row line with a description that is not an opening balance
PlainRow(line) ==
    /\ rowRe(line) # {}
    /\ Len(Particulars(Val(rowRe(line)).restRaw)) > 0
    /\ ~isOpeningBalance(Particulars(Val(rowRe(line)).restRaw))

\* a header line followed by a withdrawal-only, a deposit-only and a
\* balance-only row
HeaderAndThreeRows ==
    /\ Len(text) = 4
    /\ looksLikeHeader(text[1])
    /\ \A n \in 2..4 : PlainRow(text[n])
    /\ Len(GenericValues(text[2])) = 3 /\ GenericValues(text[2])[1] > 0 /\ GenericValues(text[2])[2] = 0
    /\ Len(GenericValues(text[3])) = 3 /\ GenericValues(text[3])[1] = 0 /\ GenericValues(text[3])[2] > 0
    /\ Len(GenericValues(text[4])) = 1

\* C11: for a text that is a header line followed by a withdrawal-only row, a
\* deposit-only row and a balance-only row, the pipeline returns exactly
\* three transactions, in the order of the rows, with the amounts
\* -withdrawal, +deposit and balance - the previous row's balance.
C11_ThreeRowsInOrder ==
    (pc = "mapped" /\ HeaderAndThreeRows)
        => /\ Len(result) = 3
           /\ result[1].amount = 0 - GenericValues(text[2])[1]
           /\ result[2].amount = GenericValues(text[3])[2]
           /\ result[3].amount = GenericValues(text[4])[1] - GenericValues(text[3])[3]

----------------------------------------------------------------------------
(* toIsoDate alone, on the tokens DATE_TOKEN accepts *)

\* day groups, month groups and year groups as (number, digits)
DayGroups == {<<1, 1>>, <<1, 2>>, <<31, 2>>}
MonthGroups == {<<1, 1>>, <<1, 2>>, <<12, 2>>}
YearGroups == {<<0, 2>>, <<69, 2>>, <<70, 2>>, <<99, 2>>, <<123, 3>>, <<1969, 4>>, <<2024, 4>>}
MonthWords == {"Jan", "MAR", "sep", "Dec", "Foo"}

DateTokens ==
    { [form |-> "numeric", dd |-> d[1], ddlen |-> d[2], mm |-> m[1], mmlen |-> m[2], mon |-> "",
       yy |-> y[1], ylen |-> y[2]] : d \in DayGroups, m \in MonthGroups, y \in YearGroups }
    \cup
    { [form |-> "name", dd |-> d[1], ddlen |-> d[2], mm |-> 0, mmlen |-> 0, mon |-> w,
       yy |-> y[1], ylen |-> y[2]] : d \in DayGroups, w \in MonthWords, y \in YearGroups }

\* the variables the function under test does not touch
Idle ==
    /\ text = <<>>
    /\ i = 1
    /\ rows = <<>>
    /\ prevBalance = None
    /\ txns = <<>>
    /\ via = <<>>
    /\ best = NoBest
    /\ scored = <<>>
    /\ stubs = <<>>
    /\ prior = {}
    /\ result = <<>>
    /\ insights = {}

InitDate ==
    /\ calls = <<>>
    /\ pc = "toIsoDate"
    /\ arg \in {{d} : d \in {t \in DateTokens : DATE_TOKEN(t)}}
    /\ ret = {}
    /\ Idle

\* toIsoDate(m[1]) returns
ToIsoDate ==
    /\ pc = "toIsoDate"
    /\ ret' = {toIsoDate(Val(arg))}
    /\ pc' = "toIsoDate.return"
    /\ UNCHANGED <<calls, text, i, rows, prevBalance, txns, via, best, scored, stubs, prior, result, insights, arg>>

NextDate == ToIsoDate

SpecDate == InitDate /\ [][NextDate]_vars

\* the string is four digits, two digits and two digits
IsYMD(o) == o.built /\ o.ydigits = 4 /\ o.mdigits = 2 /\ o.ddigits = 2

\* C13: for every token DATE_TOKEN accepts, toIsoDate returns a string of the
\* form YYYY-MM-DD.
C13_DatesAreCanonical ==
    pc = "toIsoDate.return" => IsYMD(Val(ret))

\* the token names a month, by number or by one of the twelve names
NamesAMonth(d) == d.form = "numeric" \/ monthMap(toLowerCase(d.mon)) # {}

\* C14: toIsoDate maps a two-digit year Y to 1900+Y when Y >= 70 and to
\* 2000+Y otherwise, in the numeric and in the month-name form, keeps a
\* four-digit year, and writes day and month with two digits.
C14_YearPivot ==
    (pc = "toIsoDate.return" /\ NamesAMonth(Val(arg)))
        => LET d == Val(arg)
               o == Val(ret)
           IN /\ o.built
              /\ (d.ylen = 2 /\ d.yy >= 70) => (o.yyyy = 1900 + d.yy /\ o.ydigits = 4)
              /\ (d.ylen = 2 /\ d.yy < 70) => (o.yyyy = 2000 + d.yy /\ o.ydigits = 4)
              /\ d.ylen = 4 => (o.yyyy = d.yy /\ o.ydigits = 4)
              /\ o.ddigits = 2 /\ o.dd = d.dd
              /\ o.mdigits = 2
              /\ d.form = "numeric" => o.mm = d.mm
              /\ d.form = "name" => {o.mm} = monthMap(toLowerCase(d.mon))

\* "1/1/70" became "1970-01-01" and "31 Dec 69" became "2069-12-31"
C14_Witness ==
    /\ pc = "toIsoDate.return"
    /\ \/ /\ Val(arg).form = "numeric" /\ Val(arg).ddlen = 1 /\ Val(arg).mmlen = 1
          /\ Val(arg).yy = 70 /\ Val(arg).ylen = 2
          /\ Val(ret).yyyy = 1970 /\ Val(ret).mm = 1 /\ Val(ret).dd = 1 /\ IsYMD(Val(ret))
       \/ /\ Val(arg).form = "name" /\ Val(arg).mon = "Dec"
          /\ Val(arg).yy = 69 /\ Val(arg).ylen = 2
          /\ Val(ret).yyyy = 2069 /\ Val(ret).mm = 12 /\ Val(ret).dd = 31 /\ IsYMD(Val(ret))

----------------------------------------------------------------------------
(* The header gate *)

\* the position of the first header line of t, or past the end
FirstHeader(t) ==
    IF \E n \in 1..Len(t) : looksLikeHeader(t[n])
    THEN CHOOSE n \in 1..Len(t) : looksLikeHeader(t[n]) /\ \A k \in 1..(n - 1) : ~looksLikeHeader(t[k])
    ELSE Len(t) + 1

\* how many lines behind the first header start with a date
DatedLinesInTable(t) == Cardinality({n \in (FirstHeader(t) + 1)..Len(t) : t[n].date # {}})

\* C12: the pipeline returns no more transactions than there are dated lines
\* behind the first header line, so none comes from a line before it; for a
\* text without a header line the list is empty and the insights over it
\* have zero totals and no ratio.
C12_NothingBeforeHeader ==
    pc = "mapped"
        => /\ Len(result) <= DatedLinesInTable(text)
           /\ FirstHeader(text) > Len(text)
                 => /\ result = <<>>
                    /\ Val(insights).totalDebits = 0 /\ Val(insights).totalCredits = 0
                    /\ Val(insights).netFlow = 0 /\ Val(insights).incomeExpenseRatio = {}

----------------------------------------------------------------------------
(* parseRows alone, one line per step, on a table *)

\* most lines behind the header in the model of parseRows
MaxScan == 2

\* the date token 6/3/2024
Date2 == [form |-> "numeric", dd |-> 6, ddlen |-> 1, mm |-> 3, mmlen |-> 1, mon |-> "",
          yy |-> 2024, ylen |-> 4]

\* what may follow the date of a row
RowRests ==
    { <<Word(DescUpi)>>,
      <<Word(DescUpi), Dec(50000)>>,
      <<Word(DescSalary), Dec(20000), Dec(70000)>>,
      <<Word(DescUpi), Dec(30000), Dec(0), Dec(20000)>>,
      <<Word(DescUpi), Dec(1200), Dec(0), Dec(10000), Dec(60000)>>,
      <<Word(DescUpi), IntNum(4411), DecTok(FALSE, 1234, 5, 1, TRUE)>>,
      <<Word(DescUpi), DecTok(TRUE, 100, 0, 2, FALSE), Dec(0), Dec(50000)>>,
      <<Dec(10000), Dec(50000)>>,
      <<Word(DescUpi), Dec(10000), IntNum(7), Dec(50000), Word("CR")>>,
      <<IntNum(4411)>> }

ScanLines ==
    { [rowno |-> FALSE, date |-> {Date1}, vdate |-> {}, rest |-> r] : r \in RowRests }
    \cup
    { [rowno |-> TRUE, date |-> {Date1}, vdate |-> {}, rest |-> <<Word(DescUpi), Dec(30000), Dec(0), Dec(20000)>>],
      [rowno |-> FALSE, date |-> {Date1}, vdate |-> {Date2}, rest |-> <<Word(DescSalary), Dec(20000), Dec(70000)>>],
      [rowno |-> FALSE, date |-> {Date1}, vdate |-> {Date2}, rest |-> <<>>],
      [rowno |-> FALSE, date |-> {Date1}, vdate |-> {}, rest |-> <<>>],
      [rowno |-> TRUE, date |-> {}, vdate |-> {}, rest |-> <<Word(DescSalary)>>],
      [rowno |-> FALSE, date |-> {}, vdate |-> {}, rest |-> <<Word(DescUpi), Dec(1200)>>],
      TxtLine(TxtRef) }

InitRows ==
    /\ calls = <<>>
    /\ pc = "parseRows"
    /\ \E body \in SeqsUpTo(ScanLines, MaxScan) : text = <<TxtLine(HdrGeneric)>> \o body
    /\ i = 1
    /\ rows = <<>>
    /\ ret = {ParseRowsStart}
    /\ arg = {}
    /\ prevBalance = None
    /\ txns = <<>>
    /\ via = <<>>
    /\ best = NoBest
    /\ scored = <<>>
    /\ stubs = <<>>
    /\ prior = {}
    /\ result = <<>>
    /\ insights = {}

\* one iteration of the loop over the lines
ScanLine ==
    /\ pc = "parseRows"
    /\ i <= Len(text)
    /\ ret' = {parseRowsBody(Val(ret), text[i])}
    /\ i' = i + 1
    /\ UNCHANGED <<calls, text, pc, rows, prevBalance, txns, via, best, scored, stubs, prior, result, insights, arg>>

\* the push of the last row, the filter and the return
ScanReturn ==
    /\ pc = "parseRows"
    /\ i > Len(text)
    /\ rows' = ParseRowsEnd(Val(ret))
    /\ pc' = "parseRows.return"
    /\ UNCHANGED <<calls, text, i, prevBalance, txns, via, best, scored, stubs, prior, result, insights, arg, ret>>

NextRows == ScanLine \/ ScanReturn

SpecRows == InitRows /\ [][NextRows]_vars

\* the rows parseRows holds: those pushed and the current one
HeldRows == {Val(ret).rows[n] : n \in 1..Len(Val(ret).rows)} \cup Val(ret).current

\* C15: every withdrawal, deposit, txnAmount and balance that parseRows
\* stores in a ParsedRow is a non-negative number.
C15_AmountsNonNegative ==
    pc \in {"parseRows", "parseRows.return"}
        => \A r \in HeldRows :
              \A o \in {r.withdrawal, r.deposit, r.txnAmount, r.balance} : IsNumber(o) => Val(o) >= 0

\* the loop is at an in-table line that starts a row
AtRowLine == pc = "parseRows" /\ i <= Len(text) /\ Val(ret).inTable /\ rowRe(text[i]) # {}

\* C16: in parseRows the decimal tokens of a row are read from the end: with
\* three or more, the last three are withdrawal, deposit and balance; with
\* two, txnAmount and balance; with one, the balance; with none, no amount
\* field is set.  Integer-only numbers are no amounts, and the description
\* is the text before the first token so read.
C16_TokensFromTheEnd ==
    [][ AtRowLine
        => LET rest == Val(rowRe(text[i])).restRaw
               pos == SelectSeq([k \in 1..Len(rest) |-> k], LAMBDA k : rest[k].t = "dec")
               n == Len(pos)
               v(k) == parseAmountToken(rest[pos[k]])
               r == Val(Val(ret').current)
           IN /\ n >= 3 => /\ r.withdrawal = v(n - 2) /\ r.deposit = v(n - 1) /\ r.balance = v(n)
                            /\ r.txnAmount = None
                            /\ r.particulars = Frags(SubSeq(rest, 1, pos[n - 2] - 1))
              /\ n = 2 => /\ r.txnAmount = v(1) /\ r.balance = v(2)
                           /\ r.withdrawal = None /\ r.deposit = None
                           /\ r.particulars = Frags(SubSeq(rest, 1, pos[1] - 1))
              /\ n = 1 => /\ r.balance = v(1)
                           /\ r.withdrawal = None /\ r.deposit = None /\ r.txnAmount = None
                           /\ r.particulars = Frags(SubSeq(rest, 1, pos[1] - 1))
              /\ n = 0 => /\ r.withdrawal = None /\ r.deposit = None /\ r.txnAmount = None
                           /\ r.balance = None
                           /\ r.particulars = Frags(rest) ]_vars

\* the row "UPI SHOP 12.00 0.00 100.00 600.00" was read as withdrawal 0.00,
\* deposit 100.00, balance 600.00 with 12.00 left in the description, and
\* the row "UPI SHOP 4411 1,234.5" as balance 1234.50 with 4411 in the
\* description
C16_Witness ==
    /\ pc = "parseRows"
    /\ Len(Val(ret).rows) = 1
    /\ Val(ret).rows[1].withdrawal = {0}
    /\ Val(ret).rows[1].deposit = {10000}
    /\ Val(ret).rows[1].balance = {60000}
    /\ Val(ret).rows[1].particulars = <<DescUpi, Frag(Dec(1200))>>
    /\ Val(ret).current # {}
    /\ Val(Val(ret).current).balance = {123450}
    /\ Val(Val(ret).current).txnAmount = None
    /\ Val(Val(ret).current).particulars = <<DescUpi, Frag(IntNum(4411))>>

\* what the loop does with an in-table line: a new row when starts holds,
\* else the line is appended to the current row or, without one, discarded
LineHandling(starts) ==
    LET st == Val(ret)
        st2 == Val(ret')
        line == text[i]
    IN IF starts
       THEN /\ st2.rows = (IF st.current # {} THEN Append(st.rows, Val(st.current)) ELSE st.rows)
            /\ st2.current # {}
            /\ Val(st2.current).date = toIsoDate(Val(line.date))
       ELSE /\ st2.rows = st.rows
            /\ IF st.current # {}
               THEN st2.current = {[Val(st.current) EXCEPT !.particulars = @ \o LineFrags(line)]}
               ELSE st2.current = {}

\* the rows returned are the rows started, in order, without those whose
\* description is empty at the end
EmptyRowsDropped ==
    pc' = "parseRows.return"
        => LET st == Val(ret)
               all == st.rows \o (IF st.current # {} THEN <<Val(st.current)>> ELSE <<>>)
           IN rows' = SelectSeq(all, LAMBDA r : r.particulars # <<>>)

\* C17 as claimed: behind the header, every line that begins with a date
\* token (a row number before it, a second date token behind it or not)
\* starts a new row; every other line is appended to the description of the
\* current row, or discarded when there is none; rows whose final
\* description is empty are dropped.
C17_DatedLineStartsRow ==
    [][ /\ (pc = "parseRows" /\ i <= Len(text) /\ Val(ret).inTable)
            => LineHandling(text[i].date # {})
        /\ pc = "parseRows" => EmptyRowsDropped ]_vars

\* C17 amended: behind the header, every line that begins with a date token
\* followed by more text (a second date token or anything else) starts a new
\* row; every other line, a line that is a date token alone included, is
\* appended to the description of the current row, or discarded when there is
\* none; rows whose final description is empty are dropped.
C17_DatedLineWithTextStartsRow ==
    [][ /\ (pc = "parseRows" /\ i <= Len(text) /\ Val(ret).inTable)
            => LineHandling(text[i].date # {} /\ (text[i].vdate # {} \/ Len(text[i].rest) > 0))
        /\ pc = "parseRows" => EmptyRowsDropped ]_vars

\* the row "05/03/24 100.00 500.00" has no description of its own, the line
\* "Ref 4411" behind it was appended, and the row was returned
C17_Witness ==
    /\ pc = "parseRows.return"
    /\ Len(text) = 3
    /\ text[2].date # {} /\ text[2].rest = <<Dec(10000), Dec(50000)>>
    /\ text[3] = TxtLine(TxtRef)
    /\ Len(rows) = 1
    /\ rows[1].particulars = <<TxtRef>>

----------------------------------------------------------------------------
(* inferCategory alone *)

\* most fragments (the row's own text and continuation lines) of a description
MaxFrags == 2

CategoryFrags ==
    { DescUpi, DescImps, DescNeftIcici, DescRtgs, DescAtm, DescTreatment, DescSalary, DescInterest,
      DescPremium, DescLoan, DescCharge, DescCoffee, DescGrocery }

InitCategory ==
    /\ calls = <<>>
    /\ pc = "inferCategory"
    /\ arg \in {{d} : d \in SeqsUpTo(CategoryFrags, MaxFrags)}
    /\ ret = {}
    /\ Idle

\* inferCategory(description) returns
InferCategory ==
    /\ pc = "inferCategory"
    /\ ret' = {inferCategory(Val(arg))}
    /\ pc' = "inferCategory.return"
    /\ UNCHANGED <<calls, text, i, rows, prevBalance, txns, via, best, scored, stubs, prior, result, insights, arg>>

NextCategory == InferCategory

SpecCategory == InitCategory /\ [][NextCategory]_vars

\* the keyword groups in the order of the claim
KeywordGroups ==
    << [category |-> "transfer", keywords |-> {"upi", "imps", "neft", "rtgs"}],
       [category |-> "cash", keywords |-> {"atm"}],
       [category |-> "income", keywords |-> {"salary"}],
       [category |-> "interest", keywords |-> {"interest"}],
       [category |-> "loan", keywords |-> {"emi", "loan"}],
       [category |-> "fees", keywords |-> {"charge", "fee"}] >>

\* description d contains a keyword of group g
Matches(d, g) == \E kw \in KeywordGroups[g].keywords : \E k \in 1..Len(d) : kw \in Vocab(d[k])

\* C18: inferCategory returns the category of the first keyword group, in the
\* order transfer, cash, income, interest, loan, fees, of which the
\* description contains a keyword (as a substring, in any case), and
\* "uncategorized" when it contains none; the result is one of these seven.
C18_FirstMatchingGroup ==
    pc = "inferCategory.return"
        => LET d == Val(arg)
               hits == {g \in 1..Len(KeywordGroups) : Matches(d, g)}
           IN /\ ret \subseteq {"transfer", "cash", "income", "interest", "loan", "fees", "uncategorized"}
              /\ hits = {} => ret = {"uncategorized"}
              /\ hits # {} => ret = {KeywordGroups[CHOOSE g \in hits : \A h \in hits : g <= h].category}

\* "SALARY ACME" continued by "UPI SHOP" is a transfer, "COFFEE DAY" continued
\* by "PREMIUM" is a loan
C18_Witness ==
    /\ pc = "inferCategory.return"
    /\ \/ Val(arg) = <<DescSalary, DescUpi>> /\ ret = {"transfer"}
       \/ Val(arg) = <<DescCoffee, DescPremium>> /\ ret = {"loan"}

----------------------------------------------------------------------------
(* buildInsights alone, on lists of transactions *)

\* longest list given to buildInsights
MaxTxns == 3

\* a transaction as buildInsights reads it
Txn(id, date, description, amount, drCr) ==
    [id |-> id, date |-> date, description |-> description, amount |-> amount, drCr |-> drCr]

\* the amounts and DR/CR marks of the transactions; "" is an absent drCr
InsightTxns ==
    { Txn("05/03/24-1", toIsoDate(Date1), <<DescUpi>>, a, m) : a \in {0 - 30000, 0, 10000}, m \in {"", "CR", "DR"} }

\* the amounts and the marks of a list
AmountsAndMarks(list) == [k \in 1..Len(list) |-> <<list[k].amount, list[k].drCr>>]

InitInsights ==
    /\ calls = <<>>
    /\ pc = "buildInsights"
    /\ result \in SeqsUpTo(InsightTxns, MaxTxns)
    /\ insights = {}
    /\ text = <<>>
    /\ i = 1
    /\ rows = <<>>
    /\ prevBalance = None
    /\ txns = <<>>
    /\ via = <<>>
    /\ best = NoBest
    /\ scored = <<>>
    /\ stubs = <<>>
    /\ prior = {}
    /\ arg = {}
    /\ ret = {}

\* buildInsights(txns) returns
BuildInsights ==
    /\ pc = "buildInsights"
    /\ insights' = {buildInsights(result)}
    /\ pc' = "buildInsights.return"
    /\ UNCHANGED <<calls, text, i, rows, prevBalance, txns, via, best, scored, stubs, prior, result, arg, ret>>

NextInsights == BuildInsights

SpecInsights == InitInsights /\ [][NextInsights]_vars

\* the sum of the absolute amounts of the transactions of list at the
\* positions in S
RECURSIVE AbsOver(_, _)
AbsOver(list, S) ==
    IF S = {} THEN 0
    ELSE LET n == CHOOSE n \in S : TRUE IN Abs(list[n].amount) + AbsOver(list, S \ {n})

\* C19: buildInsights counts a transaction as a debit when its drCr is DR, or
\* when drCr is absent and the amount is negative, and as a credit otherwise;
\* totalDebits and totalCredits are the sums of the absolute amounts of the
\* two classes, netFlow is totalCredits - totalDebits, incomeExpenseRatio is
\* totalCredits / totalDebits when totalDebits > 0 and null otherwise; for
\* the empty list the totals are zero and the ratio is null.
C19_TotalsByClass ==
    pc = "buildInsights.return"
        => LET debit == {n \in 1..Len(result) :
                            result[n].drCr = "DR" \/ (result[n].drCr = "" /\ result[n].amount < 0)}
               credit == (1..Len(result)) \ debit
               ins == Val(insights)
           IN /\ ins.totalDebits = AbsOver(result, debit)
              /\ ins.totalCredits = AbsOver(result, credit)
              /\ ins.netFlow = ins.totalCredits - ins.totalDebits
              /\ ins.totalDebits > 0
                    => ins.incomeExpenseRatio = {[num |-> ins.totalCredits, den |-> ins.totalDebits]}
              /\ ins.totalDebits <= 0 => ins.incomeExpenseRatio = {}
              /\ result = <<>> => (ins.totalDebits = 0 /\ ins.totalCredits = 0 /\ ins.netFlow = 0
                                   /\ ins.incomeExpenseRatio = {})

\* a list with +100.00 marked DR, -300.00 without a mark and +100.00 marked
\* CR gave debits 400.00, credits 100.00 and the ratio 100.00 / 400.00
C19_Witness ==
    /\ pc = "buildInsights.return"
    /\ AmountsAndMarks(result) = <<<<10000, "DR">>, <<0 - 30000, "">>, <<10000, "CR">>>>
    /\ Val(insights).totalDebits = 40000
    /\ Val(insights).totalCredits = 10000
    /\ Val(insights).netFlow = 0 - 30000
    /\ Val(insights).incomeExpenseRatio = {[num |-> 10000, den |-> 40000]}

\* C20: totalDebits + totalCredits over a list extended by one transaction is
\* at least what it is over the list, and netFlow is at most totalCredits.
C20_TotalsMonotone ==
    pc = "buildInsights.return"
        => /\ Val(insights).netFlow <= Val(insights).totalCredits
           /\ Len(result) > 0
                 => LET before == buildInsights(SubSeq(result, 1, Len(result) - 1))
                    IN before.totalDebits + before.totalCredits
                           <= Val(insights).totalDebits + Val(insights).totalCredits

\* the list with a credit of 100.00 was extended by a debit of 300.00: the
\* sum of the totals grew from 100.00 to 400.00 and netFlow is below the
\* credits
C20_Witness ==
    /\ pc = "buildInsights.return"
    /\ AmountsAndMarks(result) = <<<<10000, "CR">>, <<0 - 30000, "DR">>>>
    /\ Val(insights).totalDebits + Val(insights).totalCredits = 40000
    /\ Val(insights).netFlow = 0 - 20000


----------------------------------------------------------------------------
(* buildInsights on recurring merchants *)

\* longest list of hand-picked transactions given to buildInsights
MaxPicked == 3
\* most merchants with two debits in two months that follow them
MaxMerchants == 11

\* the date token 05/mm/24, and one with a year of three digits
DateIn(mm) == [Date1 EXCEPT !.mm = mm]
DateOddYear == [Date1 EXCEPT !.yy = 124, !.ylen = 3]

DescNetflix == "UPI/4411/Netflix"
DescAb == "UPI AB"
\* the description of the j-th of the merchants that follow
DescShop(j) == "POS SHOP " \o Upper[j]

\* hand-picked transactions: debits of 199.00 to NETFLIX in three months and
\* on a date without a month, a credit from NETFLIX, debits to AB
PickedTxns ==
    { Txn("1", toIsoDate(DateIn(mm)), <<DescNetflix>>, 0 - 19900, "DR") : mm \in 1..3 }
    \cup { Txn("2", toIsoDate(DateOddYear), <<DescNetflix>>, 0 - 19900, "DR"),
           Txn("3", toIsoDate(DateIn(2)), <<DescNetflix>>, 19900, "CR") }
    \cup { Txn("4", toIsoDate(DateIn(mm)), <<DescAb>>, 0 - 5000, "DR") : mm \in 1..2 }

\* two debits of 100.00 + j * 10.00 to the j-th merchant, in two months
RECURSIVE ShopDebits(_)
ShopDebits(k) ==
    IF k = 0 THEN <<>>
    ELSE ShopDebits(k - 1)
         \o << Txn("5", toIsoDate(DateIn(1)), <<DescShop(k)>>, 0 - (10000 + k * 1000), "DR"),
               Txn("6", toIsoDate(DateIn(2)), <<DescShop(k)>>, 0 - (10000 + k * 1000), "DR") >>

InitSubscriptions ==
    /\ calls = <<>>
    /\ pc = "buildInsights"
    /\ \E picked \in SeqsUpTo(PickedTxns, MaxPicked), k \in {0, MaxMerchants - 1, MaxMerchants} :
          result = picked \o ShopDebits(k)
    /\ insights = {}
    /\ text = <<>>
    /\ i = 1
    /\ rows = <<>>
    /\ prevBalance = None
    /\ txns = <<>>
    /\ via = <<>>
    /\ best = NoBest
    /\ scored = <<>>
    /\ stubs = <<>>
    /\ prior = {}
    /\ arg = {}
    /\ ret = {}

SpecSubscriptions == InitSubscriptions /\ [][NextInsights]_vars

\* the positions of the debits of a list
DebitsOf(list) == {n \in 1..Len(list) : list[n].drCr = "DR" \/ (list[n].drCr = "" /\ list[n].amount < 0)}

\* the normalized merchants of a list, position by position
MerchantsOf(list) == <<>> \o [n \in 1..Len(list) |-> normalizeMerchant(list[n].description)]

\* the positions of the debits of list to the merchant m
DebitsTo(list, names, m) == {n \in DebitsOf(list) : names[n] = m}

\* the merchants of a list that have a name of three characters or more and
\* two or more debits that fall in two or more months
RecurringMerchants(list, names) ==
    { m \in {names[n] : n \in DebitsOf(list)} :
        /\ Len(m) >= 3
        /\ Cardinality(DebitsTo(list, names, m)) >= 2
        /\ Cardinality(UNION {monthKey(list[n].date) : n \in DebitsTo(list, names, m)}) >= 2 }

\* C21: the subscriptions of buildInsights are merchants with a normalized
\* name of at least 3 characters whose debits number at least 2 and fall in at
\* least 2 distinct months, each once; all of them are listed, up to 10, and
\* a merchant left out has no larger total than the listed ones; an entry
\* carries the count of the merchant's debits, the sum of their absolute
\* amounts as totalAmount and avgAmount = totalAmount / count; the entries
\* are in descending order of totalAmount.
C21_Subscriptions ==
    pc = "buildInsights.return"
        => LET subs == Val(insights).subscriptions
               names == MerchantsOf(result)
               recurring == RecurringMerchants(result, names)
               listed == {subs[k].merchant : k \in 1..Len(subs)}
           IN /\ listed \subseteq recurring
              /\ Cardinality(listed) = Len(subs)
              /\ Len(subs) = (IF Cardinality(recurring) <= 10 THEN Cardinality(recurring) ELSE 10)
              /\ \A k \in 1..Len(subs) :
                    LET mine == DebitsTo(result, names, subs[k].merchant)
                    IN /\ subs[k].count = Cardinality(mine)
                       /\ subs[k].totalAmount = AbsOver(result, mine)
                       /\ subs[k].avgAmount = [num |-> subs[k].totalAmount, den |-> subs[k].count]
                       /\ k < Len(subs) => subs[k].totalAmount >= subs[k + 1].totalAmount
                       /\ \A m \in recurring \ listed :
                             AbsOver(result, DebitsTo(result, names, m)) <= subs[k].totalAmount

\* three debits of 199.00 to NETFLIX in three months, followed by the debits
\* to eleven other merchants: NETFLIX comes first with count 3, average
\* 597.00 / 3 and total 597.00, ten merchants are listed and SHOP A is not
C21_Witness ==
    /\ pc = "buildInsights.return"
    /\ Len(result) = 3 + 2 * 11
    /\ \A n \in 1..3 : result[n].description = <<DescNetflix>> /\ result[n].drCr = "DR"
    /\ Cardinality({result[n].date : n \in 1..3}) = 3
    /\ LET subs == Val(insights).subscriptions
       IN /\ Len(subs) = 10
          /\ subs[1] = [merchant |-> "NETFLIX", count |-> 3, avgAmount |-> [num |-> 59700, den |-> 3],
                        totalAmount |-> 59700]
          /\ \A k \in 1..10 : subs[k].merchant # "SHOP A"


----------------------------------------------------------------------------
(* buildInsights on debits of three sizes *)

\* most small debits, besides the block of FillerDebits, and most large ones
MaxSmall == 9
MaxLarge == 11
\* a block of small debits that makes the large ones rare
FillerDebits == 40

\* the small debit: 10.00, 100.00 or 100.10; the middle one is 18 times and
\* the large one 50 times the small one
SmallDebits == {1000, 10000, 10010}

\* a list of transactions of the given amounts, numbered from 1
Numbered(amounts) ==
    [n \in 1..Len(amounts) |->
        Txn(ToString(n), toIsoDate(Date1), <<DescAtm>>, amounts[n], IF amounts[n] < 0 THEN "DR" ELSE "CR")]

\* n times the amount a
Times(n, a) == [k \in 1..n |-> a]

InitUnusual ==
    /\ calls = <<>>
    /\ pc = "buildInsights"
    /\ \E u \in SmallDebits, small \in 0..MaxSmall, filler \in {0, FillerDebits}, middle \in 0..1,
          large \in 0..MaxLarge, credit \in 0..1 :
          result = Numbered(Times(credit, 90 * u) \o Times(small + filler, 0 - u)
                            \o Times(middle, 0 - 18 * u) \o Times(large, 0 - 50 * u))
    /\ insights = {}
    /\ text = <<>>
    /\ i = 1
    /\ rows = <<>>
    /\ prevBalance = None
    /\ txns = <<>>
    /\ via = <<>>
    /\ best = NoBest
    /\ scored = <<>>
    /\ stubs = <<>>
    /\ prior = {}
    /\ arg = {}
    /\ ret = {}

SpecUnusual == InitUnusual /\ [][NextInsights]_vars

\* the sum of f over the positions lo..hi that are in the set S
RECURSIVE SumOver(_, _, _, _)
SumOver(f, S, lo, hi) ==
    IF lo > hi THEN 0
    ELSE IF lo = hi THEN (IF lo \in S THEN f[lo] ELSE 0)
    ELSE LET mid == (lo + hi) \div 2 IN SumOver(f, S, lo, mid) + SumOver(f, S, mid + 1, hi)

\* The debits of list whose magnitude exceeds the threshold, as the doubles
\* give it, and the floor.  With the magnitudes m, their number c and their
\* sum s, in units of their common divisor: m > mean * 1.8 is 10 * c * m >
\* 18 * s, and m > mean + 2 * sd is c * m > s and c * (c * m - s)^2 more than
\* 4 times the sum of the (c * v - s)^2, or equal to it where the doubles end
\* below the exact threshold.
ExceedingDebits(list) ==
    LET D == DebitsOf(list)
        abs == [n \in D |-> Abs(list[n].amount)]
        order == SelectSeq([n \in 1..Len(list) |-> n], LAMBDA n : n \in D)
        g == CommonUnit(<<>> \o [k \in 1..Len(order) |-> abs[order[k]]])
        m == [n \in D |-> IF g = 0 THEN 0 ELSE abs[n] \div g]
        c == Cardinality(D)
        s == SumOver(m, D, 1, Len(list))
        sq == [n \in D |-> (c * m[n] - s) * (c * m[n] - s)]
        spread == IF c > 1 THEN SumOver(sq, D, 1, Len(list)) ELSE 0
    IN { n \in D : /\ 10 * c * m[n] > 18 * s
                   /\ c * m[n] > s
                   /\ \/ c * sq[n] > 4 * spread
                      \/ c * sq[n] = 4 * spread
                         /\ [k \in 1..Len(order) |-> abs[order[k]]] \in DoubleBelowExact
                   /\ abs[n] > 100000 }

C29_FewDebitsNoneUnusual ==
    (pc = "buildInsights.return" /\ Cardinality(DebitsOf(result)) <= 5)
        => Val(insights).unusualSpends = <<>>


----------------------------------------------------------------------------
(* Rows that no rule resolves *)

\* no deposit and no withdrawal above zero, no transaction amount and no
\* balance: none of the six resolution rules applies to the row
Unresolvable(r) ==
    /\ ~Positive(r.deposit) /\ ~Positive(r.withdrawal)
    /\ ~IsNumber(r.txnAmount) /\ ~IsNumber(r.balance)

\* C23 as claimed: a row that no rule resolves produces no transaction in
\* rowsToTxns and a transaction with amount 0 in toTxns.
C23_UnresolvedRowIsZero ==
    [][ (pc \in {"rowsToTxns", "toTxns"} /\ i <= Len(rows) /\ Unresolvable(rows[i]))
            => IF pc = "rowsToTxns" THEN txns' = txns ELSE Pushes(0) ]_vars

\* C23: a row that no rule resolves produces no transaction in rowsToTxns;
\* in toTxns it produces a transaction with amount 0, or no transaction when
\* it is an opening balance row; so it never produces a transaction with
\* another amount than 0.
C23_UnresolvedRowIsZeroOrOpening ==
    [][ (pc \in {"rowsToTxns", "toTxns"} /\ i <= Len(rows) /\ Unresolvable(rows[i]))
            => IF pc = "rowsToTxns" \/ isOpeningBalance(rows[i].particulars)
               THEN txns' = txns ELSE Pushes(0) ]_vars

\* toTxns has passed a row without decimal tokens that is not an opening
\* balance row and has pushed a transaction with amount 0 for it
C23_Witness ==
    /\ pc = "toTxns"
    /\ i > 1
    /\ Unresolvable(rows[i - 1])
    /\ ~isOpeningBalance(rows[i - 1].particulars)
    /\ Len(txns) > 0
    /\ Last(txns).amount = 0
    /\ Last(txns).description = rows[i - 1].particulars
    /\ Last(via) = "none"


----------------------------------------------------------------------------
(* The pipeline on rows of several dates *)

\* most rows under the header
MaxDated == 3

\* a deposit row and a withdrawal row on 05/03/24, on 05/04/24 and on
\* 05/03/124
DatedRows ==
    { [RowLine(r[1], r[2], "") EXCEPT !.date = {d}] :
          r \in {<<DescSalary, <<0, 10000, 60000>>>>, <<DescUpi, <<30000, 0, 20000>>>>},
          d \in {Date1, DateIn(4), DateOddYear} }

InitDated ==
    /\ calls = <<>>
    /\ \E body \in SeqsUpTo(DatedRows, MaxDated) : text = <<TxtLine(HdrGeneric)>> \o body
    /\ pc = "runParserPipeline"
    /\ i = 1
    /\ rows = <<>>
    /\ prevBalance = None
    /\ txns = <<>>
    /\ via = <<>>
    /\ best = NoBest
    /\ scored = <<>>
    /\ stubs = <<>>
    /\ prior = {}
    /\ result = <<>>
    /\ insights = {}
    /\ arg = {}
    /\ ret = {}

SpecDated == InitDated /\ [][Next]_vars

\* C24: in the list of one analysis run no two transactions have the same
\* id, and the id of the n-th transaction is written from its date, the id of
\* the winning parser and n.
C24_IdsDistinct ==
    pc = "mapped"
        => /\ \A m, n \in 1..Len(result) : m # n => result[m].id # result[n].id
           /\ \A n \in 1..Len(result) :
                 result[n].id = DateString(result[n].date) \o "-" \o best.parserId \o "-" \o ToString(n)

\* three transactions, two of them of the same date: the ids are the date,
\* generic-v1 and 1, 2, 3
C24_Witness ==
    /\ pc = "mapped"
    /\ [n \in 1..Len(result) |-> result[n].id]
         = <<"2024-03-05-generic-v1-1", "2024-04-05-generic-v1-2", "2024-03-05-generic-v1-3">>

\* the sum of the field f of the entries of a list
RECURSIVE SumField(_, _)
SumField(list, f) == IF Len(list) = 0 THEN 0 ELSE SumField(Tail(list), f) + Head(list)[f]

\* C28: over the list the pipeline returned, the monthly incomes add up to
\* totalCredits and the monthly expenses to totalDebits, the months are in
\* ascending order and net is income - expense in each.
C28_MonthsAccountForAll ==
    pc = "mapped"
        => LET ins == Val(insights)
               mom == ins.monthOverMonth
           IN /\ SumField(mom, "income") = ins.totalCredits
              /\ SumField(mom, "expense") = ins.totalDebits
              /\ \A k \in 1..Len(mom) :
                    /\ mom[k].net = mom[k].income - mom[k].expense
                    /\ k < Len(mom) =>
                          \/ mom[k].month[1] < mom[k + 1].month[1]
                          \/ mom[k].month[1] = mom[k + 1].month[1] /\ mom[k].month[2] < mom[k + 1].month[2]


----------------------------------------------------------------------------
(* Empty and non-empty results *)

\* C26: when a registered strategy extracts one transaction or more from
\* the text, runParserPipeline returns a list that is not empty.
C26_EmptyNeverOutranks ==
    (pc = "returned" /\ stubs = <<>>)
        => ((\E p \in 1..Len(PARSERS) : Len(parse(PARSERS[p], text)) > 0) => Len(best.txns) > 0)


----------------------------------------------------------------------------
(* Signed balances in toTxns *)

\* the balance of a row with its sign: negative when it is marked DR
Signed(r) == IF r.balanceType = "DR" THEN 0 - Abs(Val(r.balance)) ELSE Abs(Val(r.balance))

\* C27: in toTxns, when a row and the row before it have balances and the
\* row is resolved by the balance-delta rule, its amount is its signed
\* balance minus the signed balance of the row before, a DR balance being
\* negative and a CR or unmarked one positive.
C27_DeltaOfSignedBalances ==
    [][ (/\ pc = "toTxns" /\ i > 1 /\ i <= Len(rows)
         /\ IsNumber(rows[i].balance) /\ IsNumber(rows[i - 1].balance)
         /\ ~Positive(rows[i].deposit) /\ ~Positive(rows[i].withdrawal)
         /\ ~isOpeningBalance(rows[i].particulars))
            => Pushes(Signed(rows[i]) - Signed(rows[i - 1])) ]_vars


----------------------------------------------------------------------------
(* POST, the PDF branch: text layer, OCR fallback, response *)

\* most lines of the text layer and of the OCR text
MaxPdfLines == 2

\* looksScanned = extractedTextChars < 50
ScannedBelow == 50
\* Math.min(doc.numPages, 5)
OcrPages == 5

PdfLines == { TxtLine(HdrGeneric), RowLine(DescSalary, <<0, 10000, 60000>>, ""),
              RowLine(DescUpi, <<30000, 0, 20000>>, "") }

\* the number of characters of a date token and of a line
DateChars(d) == d.ddlen + 1 + (IF d.form = "numeric" THEN d.mmlen ELSE 3) + 1 + d.ylen
LineChars(line) ==
    LET words == (IF line.rowno THEN 1 ELSE 0) + Cardinality(line.date) + Cardinality(line.vdate)
                 + Len(line.rest)
    IN (IF line.rowno THEN 1 ELSE 0)
       + (IF line.date = {} THEN 0 ELSE DateChars(Val(line.date)))
       + (IF line.vdate = {} THEN 0 ELSE DateChars(Val(line.vdate)))
       + Sum(<<>> \o [k \in 1..Len(line.rest) |-> Len(Frag(line.rest[k]))])
       + (IF words = 0 THEN 0 ELSE words - 1)
\* text.length of a trimmed text of the given lines, one line break between
\* two lines
TextChars(t) ==
    Sum(<<>> \o [k \in 1..Len(t) |-> LineChars(t[k])]) + (IF Len(t) = 0 THEN 0 ELSE Len(t) - 1)

\* The request: the text layer of the document, what OCR reads from its
\* pages, whether GOOGLE_VISION_API_KEY is set, the number of pages, and the
\* white space in the text layer beyond single spaces and line breaks.
InitPost ==
    /\ calls = <<>>
    /\ pc = "POST"
    /\ text \in SeqsUpTo(PdfLines, MaxPdfLines)
    /\ \E ocr \in SeqsUpTo(PdfLines, MaxPdfLines), key \in BOOLEAN, space \in {0, ScannedBelow},
          pages \in {1, OcrPages + 1} :
          arg = {[ocrText |-> ocr, key |-> key, space |-> space, numPages |-> pages]}
    /\ i = 1
    /\ rows = <<>>
    /\ prevBalance = None
    /\ txns = <<>>
    /\ via = <<>>
    /\ best = NoBest
    /\ scored = <<>>
    /\ stubs = <<>>
    /\ prior = {}
    /\ result = <<>>
    /\ insights = {}
    /\ ret = {}

\* txns[0]?.sourceParser ?? "none"
ParserUsed(list) == IF Len(list) = 0 THEN "none" ELSE list[1].sourceParser

\* let txns = parseTransactionsFromText(text); parserUsed; looksScanned
PostText ==
    /\ pc = "POST"
    /\ result' = parseTransactionsFromText(text)
    /\ ret' = {[parserUsed |-> ParserUsed(result'),
                extractedTextChars |-> TextChars(text) + Val(arg).space,
                looksScanned |-> TextChars(text) + Val(arg).space < ScannedBelow,
                ocrChars |-> 0, note |-> ""]}
    /\ pc' = "POST.ocr"
    /\ UNCHANGED <<calls, text, i, rows, prevBalance, txns, via, best, scored, stubs, prior, insights, arg>>

\* mutation: the OCR list replaces the text-layer list when it is not shorter
Replaces_OrEqual(ocrTxns, list) == Len(ocrTxns) >= Len(list)

\* ocrTxns.length > txns.length
Replaces(ocrTxns, list) == Len(ocrTxns) > Len(list)

\* the OCR fallback; ocrPdfPages returns "" without the key
PostOcr ==
    /\ pc = "POST.ocr"
    /\ IF (Val(ret).looksScanned \/ Len(result) = 0) /\ Val(arg).key
       THEN LET ocrTxns == parseTransactionsFromText(Val(arg).ocrText)
            IN /\ ret' = {[Val(ret) EXCEPT !.ocrChars = TextChars(Val(arg).ocrText)]}
               /\ result' = IF Replaces(ocrTxns, result) THEN ocrTxns ELSE result
       ELSE UNCHANGED <<ret, result>>
    /\ pc' = "POST.respond"
    /\ UNCHANGED <<calls, text, i, rows, prevBalance, txns, via, best, scored, stubs, prior, insights, arg>>

\* meta.note
NoteOf(list, r, numPages) ==
    IF r.looksScanned
    THEN IF r.ocrChars > 0
         THEN "Scanned/ image-based PDF detected. OCR fallback processed "
              \o ToString(IF numPages < OcrPages THEN numPages ELSE OcrPages) \o " pages."
         ELSE "Scanned/ image-based PDF detected. Configure GOOGLE_VISION_API_KEY to enable OCR fallback."
    ELSE IF Len(list) > 0
         THEN "Text PDF detected. Parsed " \o ToString(Len(list)) \o " transactions using parser "
              \o r.parserUsed \o "."
         ELSE IF r.ocrChars > 0
              THEN "Text layer parsing failed; OCR fallback attempted."
              ELSE "Text PDF detected but no transaction rows were matched. Statement format rules need tuning."

\* meta, insights and the response { ok: true, txns, meta, insights }
PostRespond ==
    /\ pc = "POST.respond"
    /\ ret' = {[Val(ret) EXCEPT !.note = NoteOf(result, Val(ret), Val(arg).numPages)]}
    /\ insights' = {buildInsights(result)}
    /\ pc' = "POST.return"
    /\ UNCHANGED <<calls, text, i, rows, prevBalance, txns, via, best, scored, stubs, prior, result, arg>>

NextPost == PostText \/ PostOcr \/ PostRespond

SpecPost == InitPost /\ [][NextPost]_vars

\* C30: the OCR list replaces the text-layer list only when it is longer,
\* and a note that reads "Parsed N transactions using parser P" has the
\* number of the returned transactions as N and their sourceParser as P.
C30_NoteNamesReturnedParser ==
    /\ [][ (pc = "POST.ocr" /\ result' # result)
              => Len(result') > Len(result) ]_vars
    /\ [](pc = "POST.return" =>
            \A n \in 0..MaxPdfLines, P \in {"none", "icici-v1", "generic-v1"} :
                Val(ret).note = "Text PDF detected. Parsed " \o ToString(n)
                                    \o " transactions using parser " \o P \o "."
                    => /\ n = Len(result)
                       /\ \A k \in 1..Len(result) : result[k].sourceParser = P)


----------------------------------------------------------------------------
(* Two analysis runs in flight together *)

\* most lines of the text of a run
MaxRunLines == 2

\* the runs
Runs2 == {1, 2}

RunLines == { TxtLine(HdrGeneric), RowLine(DescSalary, <<0, 10000, 60000>>, ""),
              RowLine(DescUpi, <<50000>>, "") }

\* mutation: every call keeps its locals in one place
FrameOf_Shared(r) == 1

\* the activation that holds the locals of run r: each call of
\* parseTransactionsFromText, runParserPipeline, parse and rowsToTxns has
\* its own
FrameOf(r) == r

\* the locals of a run that has not begun
\* (rows: the list a pass loops over, with the strategy whose list it is)
NoFrame ==
    [ best |-> NoBest, rows |-> [of |-> "none", list |-> <<>>], pass |-> LoopStart, txns |-> <<>>,
      insights |-> {} ]

\* Two requests on different texts.  calls.at[r] is where run r stands: its
\* text, its position, the strategy and the row it is at; calls.frame holds
\* the locals of the activations; calls.out[r] is what run r returned, with
\* overlapped telling whether the other run was in flight at that moment.
InitRuns ==
    /\ \E t \in [Runs2 -> SeqsUpTo(RunLines, MaxRunLines)] :
          /\ t[1] # t[2]
          /\ calls = [ at |-> [r \in Runs2 |-> [text |-> t[r], pc |-> "call", i |-> 1, k |-> 1]],
                       frame |-> [f \in {FrameOf(r) : r \in Runs2} |-> NoFrame],
                       out |-> [r \in Runs2 |-> {}] ]
    /\ text = <<>>
    /\ pc = "runs"
    /\ i = 1
    /\ rows = <<>>
    /\ prevBalance = None
    /\ txns = <<>>
    /\ via = <<>>
    /\ best = NoBest
    /\ scored = <<>>
    /\ stubs = <<>>
    /\ prior = {}
    /\ result = <<>>
    /\ insights = {}
    /\ arg = {}
    /\ ret = {}

\* run r moves from its position to the next, its locals becoming f
Moved(r, at, f) ==
    /\ calls' = [calls EXCEPT !.at[r] = at, !.frame[FrameOf(r)] = f]
    /\ UNCHANGED <<text, pc, i, rows, prevBalance, txns, via, best, scored, stubs, prior, result,
                   insights, arg, ret>>

\* runParserPipeline is entered: let best = { parserId: "none", ... }
RunCall(r) ==
    LET at == calls.at[r]
        f == calls.frame[FrameOf(r)]
    IN /\ at.pc = "call"
       /\ Moved(r, [at EXCEPT !.pc = "canParse"], [f EXCEPT !.best = NoBest])

\* the loop of runParserPipeline reaches strategy at.i: canParse, and with a
\* positive hint parse is entered, whose rows and pass state are new
RunCanParse(r) ==
    LET at == calls.at[r]
        f == calls.frame[FrameOf(r)]
        id == PARSERS[at.i]
    IN /\ at.pc = "canParse"
       /\ at.i <= Len(PARSERS)
       /\ IF canParse(id, at.text) <= 0
          THEN Moved(r, [at EXCEPT !.i = @ + 1], f)
          ELSE Moved(r, [at EXCEPT !.pc = "parse", !.k = 1],
                     [f EXCEPT !.rows = [ of |-> id,
                                          list |-> IF id = "icici-v1" THEN at.text
                                                   ELSE parseRows(at.text) ],
                               !.pass = LoopStart])

\* one iteration of the loop of the strategy that is parsing: rowsToTxns on
\* a row, parseIciciRows on a line
RunRow(r) ==
    LET at == calls.at[r]
        f == calls.frame[FrameOf(r)]
    IN /\ at.pc = "parse"
       /\ at.k <= Len(f.rows.list)
       /\ Moved(r, [at EXCEPT !.k = @ + 1],
                [f EXCEPT !.pass = IF f.rows.of = "icici-v1"
                                   THEN parseIciciRowsBody(f.pass, f.rows.list[at.k])
                                   ELSE rowsToTxnsBody(f.pass, f.rows.list[at.k])])

\* parse returns; the strategy is scored and best replaced when it wins
RunScore(r) ==
    LET at == calls.at[r]
        f == calls.frame[FrameOf(r)]
        parsed == f.pass.txns
        score == parserScore(parsed, canParse(PARSERS[at.i], at.text))
    IN /\ at.pc = "parse"
       /\ at.k > Len(f.rows.list)
       /\ Moved(r, [at EXCEPT !.pc = "canParse", !.i = @ + 1],
                [f EXCEPT !.best = IF Better(score, f.best.score)
                                   THEN [parserId |-> PARSERS[at.i], score |-> score, txns |-> parsed]
                                   ELSE f.best])

\* runParserPipeline returns best and parseTransactionsFromText maps it
RunMap(r) ==
    LET at == calls.at[r]
        f == calls.frame[FrameOf(r)]
    IN /\ at.pc = "canParse"
       /\ at.i > Len(PARSERS)
       /\ Moved(r, [at EXCEPT !.pc = "buildInsights"],
                [f EXCEPT !.txns = [n \in 1..Len(f.best.txns) |->
                                        MapTxn(f.best.txns[n], f.best.parserId, n)]])

\* const insights = buildInsights(txns)
RunInsights(r) ==
    LET at == calls.at[r]
        f == calls.frame[FrameOf(r)]
    IN /\ at.pc = "buildInsights"
       /\ Moved(r, [at EXCEPT !.pc = "respond"], [f EXCEPT !.insights = {buildInsights(f.txns)}])

\* the response { ok: true, txns, meta, insights }
RunRespond(r) ==
    LET at == calls.at[r]
        f == calls.frame[FrameOf(r)]
    IN /\ at.pc = "respond"
       /\ calls' = [calls EXCEPT
              !.at[r] = [at EXCEPT !.pc = "returned"],
              !.out[r] = {[ txns |-> f.txns, insights |-> Val(f.insights),
                            overlapped |-> \E o \in Runs2 \ {r} :
                                               calls.at[o].pc \notin {"call", "returned"} ]}]
       /\ UNCHANGED <<text, pc, i, rows, prevBalance, txns, via, best, scored, stubs, prior, result,
                      insights, arg, ret>>

NextRuns ==
    \E r \in Runs2 :
        \/ RunCall(r)
        \/ RunCanParse(r)
        \/ RunRow(r)
        \/ RunScore(r)
        \/ RunMap(r)
        \/ RunInsights(r)
        \/ RunRespond(r)

SpecRuns == InitRuns /\ [][NextRuns]_vars

====
